---------------------------- MODULE Spec2Model ----------------------------
(***************************************************************************)
(* Exact-arithmetic two-phase simplex solver: the Tableau class            *)
(* (src/lpsolver_py/tableau.py) and the Simplex driver                     *)
(* (src/lpsol/simplex.py).                                                 *)
(*                                                                         *)
(* Conventions of the model                                                *)
(*  - a Fraction is a pair <<p, q>> in lowest terms with q > 0, so that    *)
(*    equality of Fractions is equality of pairs;                          *)
(*  - a Python list is a TLA+ sequence; indices that the program passes    *)
(*    around (row r, column c, the entries of the basic sequence) are the  *)
(*    Python ones: 0-based, and a negative index counts from the end;      *)
(*  - tab is the Tableau object (fields m, n, z, c, b, a, cl, cm for       *)
(*    _m, _n, _z, _c, _b, _a, _cl, _cm), bfs is Simplex._bfs;              *)
(*  - pc is the position of the control: "new" (a Tableau, no Simplex      *)
(*    yet), "std" and "min" (inside the two while loops of solve()),       *)
(*    "ready" (a constructed Simplex, no call in progress), "raised" (the  *)
(*    constructor or solve() raised);                                      *)
(*  - sv holds the locals obj_val and steps_stuck of solve(), fb the       *)
(*    locals orig_c, orig_z, m, n of _find_bfs while it waits for solve(); *)
(*    num_piv, which is only ever incremented, is left out;                *)
(*  - history variables: tab0 is the Tableau as it was handed to the       *)
(*    Simplex constructor, last the last call made and how it ended (with  *)
(*    the pivot performed, if any), stall the number of consecutive        *)
(*    standard-rule pivots of the running solve() that left the objective  *)
(*    value as it was before the pivot, calls the number of calls made,    *)
(*    pivs the first pivots (at most MaxTrace) of the last solve() entered,*)
(*    seen the states (tableau, basic sequence, steps_stuck, loop) that the *)
(*    running solve() has left behind;                                      *)
(*  - lv is a LinVar object (src/lpsol/linprog.py; fields x, isint, lb, ub) *)
(*    and given the history of the bounds supplied to it, by the           *)
(*    constructor and by boundAbove and boundBelow.                        *)
(***************************************************************************)
EXTENDS Integers, Sequences, FiniteSets, TLC

VARIABLES tab, bfs, pc, sv, fb, tab0, last, stall, calls, pivs, seen, lv, given

vars == <<tab, bfs, pc, sv, fb, tab0, last, stall, calls, pivs, seen, lv, given>>

---------------------------------------------------------------------------
(* Bounds of the model *)

MaxM == 2
MaxN == 2
MaxEntry == 1
MaxCalls == 2
MaxTrace == 3
MaxBound == 2
MaxBoundCalls == 3

---------------------------------------------------------------------------
(* fractions.Fraction *)

Abs(x) == IF x < 0 THEN -x ELSE x

RECURSIVE Gcd(_, _)
Gcd(x, y) == IF y = 0 THEN x ELSE Gcd(y, x % y)

Frac(p, q) ==
    LET g == Gcd(Abs(p), Abs(q))
        s == IF q < 0 THEN -1 ELSE 1
    IN  <<(s * p) \div g, (s * q) \div g>>

ZERO == <<0, 1>>
ONE == <<1, 1>>

FInt(k) == <<k, 1>>
FNeg(x) == <<-x[1], x[2]>>
FAdd(x, y) == Frac(x[1] * y[2] + y[1] * x[2], x[2] * y[2])
FSub(x, y) == FAdd(x, FNeg(y))
FMul(x, y) == Frac(x[1] * y[1], x[2] * y[2])
FDiv(x, y) == Frac(x[1] * y[2], x[2] * y[1])
FLt(x, y) == x[1] * y[2] < y[1] * x[2]
FLe(x, y) == x[1] * y[2] <= y[1] * x[2]

---------------------------------------------------------------------------
(* Python lists *)

\* list[i] for a Python index i: a negative index counts from the end
PyIdx(l, i) == IF i < 0 THEN Len(l) + i + 1 ELSE i + 1
InRange(l, i) == (-Len(l) <= i) /\ (i < Len(l))
At(l, i) == l[PyIdx(l, i)]
Put(l, i, v) == [l EXCEPT ![PyIdx(l, i)] = v]
Range0(k) == 0 .. (k - 1)

\* [x for i,x in enumerate(l) if keep[i]]
RECURSIVE Filter(_, _)
Filter(l, keep) ==
    IF l = <<>> THEN <<>>
    ELSE (IF Head(keep) THEN <<Head(l)>> ELSE <<>>) \o Filter(Tail(l), Tail(keep))

\* a function with domain 1..k as a list, its elements evaluated
List(f) == f \o <<>>

Take(l, k) == SubSeq(l, 1, k)
Rep(v, k) == List([i \in 1 .. k |-> v])

---------------------------------------------------------------------------
(* class Tableau *)

Tableau(m, n) ==
    [m |-> m, n |-> n, z |-> ZERO, c |-> Rep(ZERO, n), b |-> Rep(ZERO, m),
     a |-> Rep(Rep(ZERO, n), m), cl |-> Rep("", n), cm |-> Rep(FALSE, n)]

getNumCons(T) == T.m
getNumVars(T) == T.n
\* getZ returning the stored corner instead of its negative
getZ_noNeg(T) == T.z

getZ(T) == FNeg(T.z)
getCj(T, j) == At(T.c, j)
getBi(T, i) == At(T.b, i)
getAij(T, i, j) == At(At(T.a, i), j)

getVarName(T, j) == At(T.cl, j)
getVarMark(T, j) == At(T.cm, j)

setZ(T, v) == [T EXCEPT !.z = FNeg(v)]
setCj(T, j, v) == [T EXCEPT !.c = Put(T.c, j, v)]
setC(T, cs) ==
    [T EXCEPT !.c = List([j \in 1 .. Len(T.c) |->
                        IF j <= getNumVars(T) THEN cs[j] ELSE T.c[j]])]
setB(T, bs) ==
    [T EXCEPT !.b = List([i \in 1 .. Len(T.b) |->
                        IF i <= getNumCons(T) THEN bs[i] ELSE T.b[i]])]
setA(T, as) ==
    [T EXCEPT !.a = List([i \in 1 .. Len(T.a) |->
                        IF i <= getNumCons(T)
                        THEN List([j \in 1 .. Len(T.a[i]) |->
                                 IF j <= getNumVars(T) THEN as[i][j] ELSE T.a[i][j]])
                        ELSE T.a[i]])]
setBi(T, i, v) == [T EXCEPT !.b = Put(T.b, i, v)]
setAij(T, i, j, v) == [T EXCEPT !.a = Put(T.a, i, Put(At(T.a, i), j, v))]
setVarNames(T, ls) ==
    [T EXCEPT !.cl = List([j \in 1 .. Len(T.cl) |->
                        IF j <= getNumVars(T) THEN ls[j] ELSE T.cl[j]])]
setVarMarks(T, ms) ==
    [T EXCEPT !.cm = List([j \in 1 .. Len(T.cm) |->
                        IF j <= getNumVars(T) THEN ms[j] ELSE T.cm[j]])]
setVarMark(T, j, v) == [T EXCEPT !.cm = Put(T.cm, j, v)]
setVarName(T, j, l) == [T EXCEPT !.cl = Put(T.cl, j, l)]
toggleVarMark(T, j) == [T EXCEPT !.cm = Put(T.cm, j, ~At(T.cm, j))]

addVar(T, v) ==
    [T EXCEPT !.n = T.n + 1,
              !.c = Append(T.c, ZERO),
              !.a = List([i \in 1 .. Len(T.a) |-> Append(T.a[i], ZERO)]),
              !.cl = Append(T.cl, v),
              !.cm = Append(T.cm, FALSE)]

addVars(T, vs) ==
    [T EXCEPT !.n = T.n + Len(vs),
              !.c = T.c \o Rep(ZERO, Len(vs)),
              !.a = List([i \in 1 .. Len(T.a) |-> T.a[i] \o Rep(ZERO, Len(vs))]),
              !.cl = T.cl \o vs,
              !.cm = T.cm \o Rep(FALSE, Len(vs))]

addCon(T) ==
    [T EXCEPT !.m = T.m + 1,
              !.b = Append(T.b, ZERO),
              !.a = Append(T.a, Rep(ZERO, T.n))]

\* count > 0 (the caller checks; count <= 0 raises ValueError)
addCons(T, count) ==
    [T EXCEPT !.m = T.m + count,
              !.b = T.b \o Rep(ZERO, count),
              !.a = T.a \o Rep(Rep(ZERO, T.n), count)]

\* perm is a sequence of Python indices, a permutation of 0..m-1
IsPerm(perm, k) == Len(perm) = k /\ {perm[i] : i \in 1 .. Len(perm)} = Range0(k)

permuteRows(T, perm) ==
    [T EXCEPT !.a = List([i \in 1 .. Len(perm) |-> At(T.a, perm[i])]),
              !.b = List([i \in 1 .. Len(perm) |-> At(T.b, perm[i])])]

permuteCols(T, perm) ==
    [T EXCEPT !.a = List([i \in 1 .. Len(T.a) |->
                        List([j \in 1 .. Len(perm) |-> At(T.a[i], perm[j])])]),
              !.c = List([j \in 1 .. Len(perm) |-> At(T.c, perm[j])]),
              !.cl = List([j \in 1 .. Len(perm) |-> At(T.cl, perm[j])]),
              !.cm = List([j \in 1 .. Len(perm) |-> At(T.cm, perm[j])])]

\* rowMult with "self._b[r] *= m" left out
rowMult_noB(T, r, k) ==
    IF k = ONE THEN T
    ELSE [T EXCEPT !.a = Put(T.a, r, List([j \in 1 .. Len(At(T.a, r)) |->
                                         FMul(At(T.a, r)[j], k)]))]

rowMult(T, r, k) ==
    IF k = ONE THEN T
    ELSE [T EXCEPT !.b = Put(T.b, r, FMul(At(T.b, r), k)),
                   !.a = Put(T.a, r, List([j \in 1 .. Len(At(T.a, r)) |->
                                         FMul(At(T.a, r)[j], k)]))]

\* d # 0 (d = 0 raises ZeroDivisionError before anything is changed)
rowDiv(T, r, d) == rowMult(T, r, FDiv(ONE, d))

rowAdd(T, rd, rs, k) ==
    IF k = ZERO THEN T
    ELSE [T EXCEPT !.b = Put(T.b, rd, FAdd(At(T.b, rd), FMul(k, At(T.b, rs)))),
                   !.a = Put(T.a, rd, List([j \in 1 .. Len(At(T.a, rd)) |->
                                          IF j <= getNumVars(T)
                                          THEN FAdd(At(T.a, rd)[j], FMul(k, At(T.a, rs)[j]))
                                          ELSE At(T.a, rd)[j]]))]

rowSub(T, rd, rs, k) == rowAdd(T, rd, rs, FNeg(k))

\* rowAddToObj with "self._z += m*self._b[r]" left out
rowAddToObj_noZ(T, r, k) ==
    IF k = ZERO THEN T
    ELSE [T EXCEPT !.c = List([j \in 1 .. Len(T.c) |->
                             IF j <= getNumVars(T)
                             THEN FAdd(T.c[j], FMul(k, At(T.a, r)[j]))
                             ELSE T.c[j]])]

rowAddToObj(T, r, k) ==
    IF k = ZERO THEN T
    ELSE [T EXCEPT !.z = FAdd(T.z, FMul(k, At(T.b, r))),
                   !.c = List([j \in 1 .. Len(T.c) |->
                             IF j <= getNumVars(T)
                             THEN FAdd(T.c[j], FMul(k, At(T.a, r)[j]))
                             ELSE T.c[j]])]

rowSubFromObj(T, r, k) == rowAddToObj(T, r, FNeg(k))

\* the loop "for rr in range(self.getNumCons())" of pivot, from row rr on;
\* the test r == rr compares the indices as given, so a negative r skips no row
RECURSIVE pivotElim(_, _, _, _)
pivotElim(T, r, c, rr) ==
    IF rr >= getNumCons(T) THEN T
    ELSE pivotElim(IF r = rr THEN T ELSE rowSub(T, rr, r, getAij(T, rr, c)),
                   r, c, rr + 1)

\* pivot with "self.rowAddToObj(r,-self._c[c])" left out
pivot_noObj(T, r, c) == pivotElim(rowDiv(T, r, getAij(T, r, c)), r, c, 0)

\* a[r][c] # 0 (a zero entry raises ZeroDivisionError before anything is changed)
pivot(T, r, c) ==
    LET T1 == rowDiv(T, r, getAij(T, r, c))
        T2 == rowAddToObj(T1, r, FNeg(getCj(T1, c)))
    IN  pivotElim(T2, r, c, 0)

\* "any(bi < ZERO for bi in self._b)"
anyNegB(T) == \E i \in 1 .. Len(T.b) : FLt(T.b[i], ZERO)

SetMin(S) == CHOOSE x \in S : \A y \in S : x <= y
Min2(x, y) == IF x <= y THEN x ELSE y

\* the row onei the scan "for i in range(m)" of isCanonical stops at in column j
\* (-1 if it finds no entry equal to ONE among the rows a holds)
firstOne(T, j) ==
    LET S == {i \in Range0(Min2(getNumCons(T), Len(T.a))) : getAij(T, i, j) = ONE}
    IN  IF S = {} THEN -1 ELSE SetMin(S)

\* isCanonical reads self._a[i][j] for i in range(m): when m exceeds the number of
\* rows a holds, the read of a missing row raises IndexError unless the scan stops
\* before it
colScanRaises(T, j) ==
    /\ getCj(T, j) = ZERO
    /\ getNumCons(T) > Len(T.a)
    /\ \/ firstOne(T, j) = -1
       \/ \A i \in Range0(Len(T.a)) : i = firstOne(T, j) \/ getAij(T, i, j) = ZERO

isCanonicalRaises(T) ==
    /\ ~anyNegB(T)
    /\ \E j \in Range0(getNumVars(T)) : colScanRaises(T, j)

\* the row whose list cols[onei] column j is appended to, or -1
basicRowOf(T, j) ==
    IF /\ getCj(T, j) = ZERO
       /\ firstOne(T, j) # -1
       /\ \A i \in Range0(Min2(getNumCons(T), Len(T.a))) :
              i = firstOne(T, j) \/ getAij(T, i, j) = ZERO
       /\ getNumCons(T) <= Len(T.a)
    THEN firstOne(T, j) ELSE -1

\* bcols with collist[-1], the highest basic column of each row, for collist[0]
basicCols_highest(T) ==
    List([i \in 1 .. getNumCons(T) |->
        LET S == {j \in Range0(getNumVars(T)) : basicRowOf(T, j) = i - 1}
        IN  IF S = {} THEN -1 ELSE CHOOSE j \in S : \A k \in S : k <= j])

\* bcols as isCanonical(bcols) leaves it when no b[i] is negative:
\* collist[0] for each row, or -1
basicCols(T) ==
    List([i \in 1 .. getNumCons(T) |->
        LET S == {j \in Range0(getNumVars(T)) : basicRowOf(T, j) = i - 1}
        IN  IF S = {} THEN -1 ELSE SetMin(S)])

isCanonical(T) ==
    /\ ~anyNegB(T)
    /\ \A i \in 1 .. getNumCons(T) : basicCols(T)[i] # -1

isOptimal(T) == \A j \in 1 .. Len(T.c) : FLe(ZERO, T.c[j])

isDegenerate(T) == \E i \in 1 .. Len(T.b) : T.b[i] = ZERO

---------------------------------------------------------------------------
(* class Simplex: pivot search *)

\* the column loop of findPivotStandard with "cj2 <= getCj(j)" for "cj2 < getCj(j)"
RECURSIVE stdColumn_lastTie(_, _, _)
stdColumn_lastTie(T, j2, j) ==
    IF j2 >= getNumVars(T) THEN j
    ELSE stdColumn_lastTie(T, j2 + 1,
                   IF FLe(ZERO, getCj(T, j2)) THEN j
                   ELSE IF j = -1 \/ FLe(getCj(T, j2), getCj(T, j)) THEN j2
                   ELSE j)

\* the loop "for j2 in range(n)" of findPivotStandard, from column j2 on, j being
\* the column selected so far (-1 for none)
RECURSIVE stdColumn(_, _, _)
stdColumn(T, j2, j) ==
    IF j2 >= getNumVars(T) THEN j
    ELSE stdColumn(T, j2 + 1,
                   IF FLe(ZERO, getCj(T, j2)) THEN j
                   ELSE IF j = -1 \/ FLt(getCj(T, j2), getCj(T, j)) THEN j2
                   ELSE j)

\* the column loop of findPivotMinIndex without the break: the last negative
\* reduced cost is taken
RECURSIVE minIndexColumn_noBreak(_, _)
minIndexColumn_noBreak(T, j2) ==
    IF j2 >= getNumVars(T) THEN -1
    ELSE IF minIndexColumn_noBreak(T, j2 + 1) # -1
         THEN minIndexColumn_noBreak(T, j2 + 1)
    ELSE IF FLe(ZERO, getCj(T, j2)) THEN -1
    ELSE j2

\* the loop "for j2 in range(n)" of findPivotMinIndex: it breaks at the first
\* negative reduced cost
RECURSIVE minIndexColumn(_, _)
minIndexColumn(T, j2) ==
    IF j2 >= getNumVars(T) THEN -1
    ELSE IF FLe(ZERO, getCj(T, j2)) THEN minIndexColumn(T, j2 + 1)
    ELSE j2

\* Python's None where a Fraction is expected: no Fraction has denominator 0
None == <<0, 0>>

\* the loop "for i2 in range(m)" that finds the first row with minimum ratio in
\* column j, from row i2 on; acc = [i, ratio] is the selection so far
RECURSIVE ratioRow(_, _, _, _)
ratioRow(T, j, i2, acc) ==
    IF i2 >= getNumCons(T) THEN acc
    ELSE ratioRow(T, j, i2 + 1,
                  IF FLe(getAij(T, i2, j), ZERO) THEN acc
                  ELSE LET r == FDiv(getBi(T, i2), getAij(T, i2, j))
                       IN  IF acc.ratio = None \/ FLt(r, acc.ratio)
                           THEN [i |-> i2, ratio |-> r]
                           ELSE acc)

\* what a pivot search returns: 'optimal', 'unbounded' or the pair (i, j)
selected(sel, j) ==
    IF sel.ratio = None THEN [kind |-> "unbounded", i |-> -1, j |-> -1]
    ELSE [kind |-> "pivot", i |-> sel.i, j |-> j]

searchResult(T, j) ==
    IF j = -1 THEN [kind |-> "optimal", i |-> -1, j |-> -1]
    ELSE selected(ratioRow(T, j, 0, [i |-> -1, ratio |-> None]), j)

findPivotStandard(T) == searchResult(T, stdColumn(T, 0, -1))

findPivotMinIndex(T) == searchResult(T, minIndexColumn(T, 0))

\* the loop "for i in range(m)" of findPivotMaxIncrease in column j, from row i on;
\* acc = [ratio, colinc, isel] is the selection so far in the column
RECURSIVE maxIncRow(_, _, _, _)
maxIncRow(T, j, i, acc) ==
    IF i >= getNumCons(T) THEN acc
    ELSE maxIncRow(T, j, i + 1,
                   IF FLe(getAij(T, i, j), ZERO) THEN acc
                   ELSE LET r == FDiv(getBi(T, i), getAij(T, i, j))
                            inc == FMul(FNeg(getCj(T, j)), r)
                        IN  IF acc.ratio = None \/ FLt(r, acc.ratio)
                            THEN [ratio |-> r, colinc |-> inc, isel |-> i]
                            ELSE IF /\ r = acc.ratio
                                    /\ acc.colinc # None
                                    /\ FLt(acc.colinc, inc)
                                 THEN [acc EXCEPT !.colinc = inc, !.isel = i]
                            ELSE acc)

RECURSIVE maxIncColumn(_, _, _)

\* lines 319-323 with the strict "colinc > inc" replaced by "colinc >= inc"
maxIncAfterRows_lastTie(T, j, sel, col) ==
    IF col.colinc = None THEN [kind |-> "unbounded", i |-> -1, j |-> -1]
    ELSE maxIncColumn(T, j + 1,
                      IF sel.inc = None \/ FLe(sel.inc, col.colinc)
                      THEN [inc |-> col.colinc, si |-> col.isel, sj |-> j, any |-> TRUE]
                      ELSE [sel EXCEPT !.any = TRUE])

\* lines 319-323, col being the outcome of the row loop in column j and
\* sel = [inc, si, sj, any_negative_cj] the selection before it, and the columns
\* after j
maxIncAfterRows(T, j, sel, col) ==
    IF col.colinc = None THEN [kind |-> "unbounded", i |-> -1, j |-> -1]
    ELSE maxIncColumn(T, j + 1,
                      IF sel.inc = None \/ FLt(sel.inc, col.colinc)
                      THEN [inc |-> col.colinc, si |-> col.isel, sj |-> j, any |-> TRUE]
                      ELSE [sel EXCEPT !.any = TRUE])

\* the loop "for j in range(n)" of findPivotMaxIncrease, from column j on, and the
\* lines 324-328 that follow it
maxIncColumn(T, j, sel) ==
    IF j >= getNumVars(T)
    THEN IF ~sel.any THEN [kind |-> "optimal", i |-> -1, j |-> -1]
         ELSE [kind |-> "pivot", i |-> sel.si, j |-> sel.sj]
    ELSE IF FLe(ZERO, getCj(T, j)) THEN maxIncColumn(T, j + 1, sel)
    ELSE maxIncAfterRows(T, j, sel,
                         maxIncRow(T, j, 0, [ratio |-> None, colinc |-> None, isel |-> -1]))

findPivotMaxIncrease(T) ==
    maxIncColumn(T, 0, [inc |-> None, si |-> -1, sj |-> -1, any |-> FALSE])

\* the row loop of findPivotAll without the branch "elif r == ratio": a tie is
\* not listed
RECURSIVE pivotList_noTies(_, _, _, _)
pivotList_noTies(T, j, i, acc) ==
    IF i >= getNumCons(T) THEN acc.pivotlist
    ELSE pivotList_noTies(T, j, i + 1,
                   IF FLe(getAij(T, i, j), ZERO) THEN acc
                   ELSE LET r == FDiv(getBi(T, i), getAij(T, i, j))
                        IN  IF acc.ratio = None \/ FLt(r, acc.ratio)
                            THEN [ratio |-> r, pivotlist |-> <<<<i, j>>>>]
                            ELSE acc)

\* the loop "for i in range(m)" of findPivotAll in column j, from row i on;
\* acc = [ratio, pivotlist]
RECURSIVE pivotList(_, _, _, _)
pivotList(T, j, i, acc) ==
    IF i >= getNumCons(T) THEN acc.pivotlist
    ELSE pivotList(T, j, i + 1,
                   IF FLe(getAij(T, i, j), ZERO) THEN acc
                   ELSE LET r == FDiv(getBi(T, i), getAij(T, i, j))
                        IN  IF acc.ratio = None
                            THEN [ratio |-> r, pivotlist |-> Append(acc.pivotlist, <<i, j>>)]
                            ELSE IF r = acc.ratio
                                 THEN [acc EXCEPT !.pivotlist = Append(acc.pivotlist, <<i, j>>)]
                            ELSE IF FLt(r, acc.ratio)
                                 THEN [ratio |-> r, pivotlist |-> <<<<i, j>>>>]
                            ELSE acc)

\* the loop "for j in range(n)" of findPivotAll, from column j on: "ret += pivotlist"
RECURSIVE pivotsFrom(_, _)
pivotsFrom(T, j) ==
    IF j >= getNumVars(T) THEN <<>>
    ELSE pivotList(T, j, 0, [ratio |-> None, pivotlist |-> <<>>]) \o pivotsFrom(T, j + 1)

findPivotAll(T) == pivotsFrom(T, 0)

\* Simplex._pivot on the pair (tableau, basic sequence)
doPivot(T, B, r, c) ==
    LET T1 == pivot(T, r, c)
        T2 == setVarMark(T1, At(B, r), FALSE)
    IN  [tab |-> setVarMark(T2, c, TRUE), bfs |-> Put(B, r, c)]

\* Simplex.getBFS: the dict built by "ret[j] = self._tab.getBi(i)" over
\* enumerate(self._bfs); a later row overwrites an earlier one with the same key
getBFS(T, B) ==
    [j \in {B[k] : k \in 1 .. Len(B)} |->
        getBi(T, CHOOSE i \in Range0(Len(B)) :
                     /\ B[i + 1] = j
                     /\ \A k \in Range0(Len(B)) : B[k + 1] = j => k <= i)]

\* the loop "for i in range(self._tab.getNumCons())" of Simplex.pivot, from row i on
RECURSIVE minRatio(_, _, _, _)
minRatio(T, c, i, cur) ==
    IF i >= getNumCons(T) THEN cur
    ELSE minRatio(T, c, i + 1,
                  IF FLe(getAij(T, i, c), ZERO) THEN cur
                  ELSE LET ratio == FDiv(getBi(T, i), getAij(T, i, c))
                       IN  IF cur = None \/ FLt(ratio, cur) THEN ratio ELSE cur)

\* the outcome of Simplex.pivot with the comparison "ratio != minratio" left out
pivotOutcome_noRatio(T, r, c) ==
    IF ~InRange(T.c, c) \/ ~InRange(T.b, r) THEN "IndexError"
    ELSE IF getAij(T, r, c) = ZERO THEN "ZeroDivisionError"
    ELSE "ok"

\* how the call Simplex.pivot(r, c) ends: "ok" when it reaches self._pivot(r, c),
\* else the exception it raises (before anything is changed)
pivotOutcome(T, r, c) ==
    IF ~InRange(T.c, c) \/ ~InRange(T.b, r) THEN "IndexError"
    ELSE IF getAij(T, r, c) = ZERO THEN "ZeroDivisionError"
    ELSE IF FDiv(getBi(T, r), getAij(T, r, c)) # minRatio(T, c, 0, None)
         THEN "ValueError"
    ELSE "ok"

---------------------------------------------------------------------------
(* class Simplex: _find_bfs *)

ArtNames == <<"$a0", "$a1", "$a2", "$a3", "$a4", "$a5">>

\* "for i in range(m): if b[i] < 0: rowMult(i, -1)", from row i on
RECURSIVE flipRows(_, _)
flipRows(T, i) ==
    IF i >= getNumCons(T) THEN T
    ELSE flipRows(IF FLt(getBi(T, i), ZERO) THEN rowMult(T, i, FNeg(ONE)) ELSE T, i + 1)

\* missing taken to be every row, whether or not it has a basic column
missingRows_all(B) == List([k \in 1 .. Len(B) |-> k - 1])

\* missing = [i for i,j in enumerate(self._bfs) if j == -1]
missingRows(B) ==
    LET Test(i) == B[i + 1] = -1
    IN  SelectSeq(List([k \in 1 .. Len(B) |-> k - 1]), Test)

\* the artificial objective built with rowAddToObj for rowSubFromObj: the rows
\* are added to the objective row instead of subtracted
RECURSIVE addArtificial_wrongSign(_, _, _, _, _)
addArtificial_wrongSign(T, B, n, missing, ind) ==
    IF ind >= Len(missing) THEN [tab |-> T, bfs |-> B]
    ELSE LET i == missing[ind + 1]
             T1 == setCj(T, n + ind, ONE)
             T2 == setAij(T1, i, n + ind, ONE)
             T3 == rowAddToObj(T2, i, ONE)
         IN  addArtificial_wrongSign(T3, Put(B, i, n + ind), n, missing, ind + 1)

\* "for ind,i in enumerate(missing)": the artificial column of each missing row
RECURSIVE addArtificial(_, _, _, _, _)
addArtificial(T, B, n, missing, ind) ==
    IF ind >= Len(missing) THEN [tab |-> T, bfs |-> B]
    ELSE LET i == missing[ind + 1]
             T1 == setCj(T, n + ind, ONE)
             T2 == setAij(T1, i, n + ind, ONE)
             T3 == rowSubFromObj(T2, i, ONE)
         IN  addArtificial(T3, Put(B, i, n + ind), n, missing, ind + 1)

\* _find_bfs up to the call of solve(): lines 42-60
beginFindBfs(T) ==
    LET m == getNumCons(T)
        n == getNumVars(T)
        T1 == flipRows(T, 0)
        B1 == basicCols(T1)
    IN  IF isCanonical(T1)
        THEN [canonical |-> TRUE, tab |-> T1, bfs |-> B1,
              orig_c |-> <<>>, orig_z |-> ZERO, m |-> m, n |-> n]
        ELSE LET orig_c == T1.c
                 orig_z == getZ(T1)
                 T2 == setZ(setC(T1, Rep(ZERO, n)), ZERO)
                 missing == missingRows(B1)
                 T3 == addVars(T2, List([k \in 1 .. Len(missing) |-> ArtNames[missing[k] + 1]]))
                 R == addArtificial(T3, B1, n, missing, 0)
             IN  [canonical |-> FALSE, tab |-> R.tab, bfs |-> R.bfs,
                  orig_c |-> orig_c, orig_z |-> orig_z, m |-> m, n |-> n]

\* the scan of lines 77-80 with "> ZERO" for "!= ZERO": a negative entry is passed over
RECURSIVE firstNonzero_positive(_, _, _, _)
firstNonzero_positive(T, i, n, j2) ==
    IF j2 >= n THEN -1
    ELSE IF FLt(ZERO, getAij(T, i, j2)) THEN j2
    ELSE firstNonzero_positive(T, i, n, j2 + 1)

\* "for j2 in range(n): if a[i][j2] != 0: j1 = j2; break", from column j2 on
RECURSIVE firstNonzero(_, _, _, _)
firstNonzero(T, i, n, j2) ==
    IF j2 >= n THEN -1
    ELSE IF getAij(T, i, j2) # ZERO THEN j2
    ELSE firstNonzero(T, i, n, j2 + 1)

\* the loop "for i in range(m)" of lines 69-84, from row i on; ok becomes FALSE
\* when the assertion b[i] == 0 fails
RECURSIVE replaceArtificial(_, _, _, _, _, _)
replaceArtificial(T, B, m, n, i, rowkeep) ==
    IF i >= m THEN [tab |-> T, bfs |-> B, rowkeep |-> rowkeep, ok |-> TRUE]
    ELSE IF At(B, i) < n THEN replaceArtificial(T, B, m, n, i + 1, rowkeep)
    ELSE IF getBi(T, i) # ZERO
         THEN [tab |-> T, bfs |-> B, rowkeep |-> rowkeep, ok |-> FALSE]
    ELSE LET j1 == firstNonzero(T, i, n, 0)
         IN  IF j1 = -1
             THEN replaceArtificial(T, B, m, n, i + 1, Put(rowkeep, i, FALSE))
             ELSE LET P == doPivot(T, B, i, j1)
                  IN  replaceArtificial(P.tab, P.bfs, m, n, i + 1, rowkeep)

\* lines 88-100: the rows marked for deletion and the artificial columns are cut
\* out of the Tableau's lists; _m is assigned m, the number of rows before deletion
stripTableau(T, rowkeep, m, n) ==
    LET b1 == Filter(T.b, rowkeep)
        a1 == Filter(T.a, rowkeep)
    IN  [T EXCEPT !.b = b1,
                  !.m = m,
                  !.c = Take(T.c, n),
                  !.cl = Take(T.cl, n),
                  !.cm = Take(T.cm, n),
                  !.a = List([i \in 1 .. Len(a1) |-> Take(a1[i], n)]),
                  !.n = n]

\* "for i,j in enumerate(self._bfs): rowSubFromObj(i, getCj(j))", from row i on
RECURSIVE rezeroObjective(_, _, _)
rezeroObjective(T, B, i) ==
    IF i >= Len(B) THEN T
    ELSE rezeroObjective(rowSubFromObj(T, i, getCj(T, At(B, i))), B, i + 1)

\* "for j in self._bfs: setVarMark(j, True)", from position i on
RECURSIVE markBasic(_, _, _)
markBasic(T, B, i) ==
    IF i >= Len(B) THEN T
    ELSE markBasic(setVarMark(T, At(B, i), TRUE), B, i + 1)

\* the restoration with "self._tab.setC(orig_c)" left out
restoreObjective_noC(T, F) == setZ(T, F.orig_z)

\* "self._tab.setZ(orig_z); self._tab.setC(orig_c)"
restoreObjective(T, F) == setC(setZ(T, F.orig_z), F.orig_c)

\* lines 106-108, on the tableau T3 with the objective restored and reduced and
\* the filtered basic sequence B1: "assert self._tab.isCanonical()" is evaluated
\* (it raises IndexError when it reads a row that a no longer holds) and the
\* basic columns are marked
reduceAndCheck(T3, B1) ==
    IF isCanonicalRaises(T3) THEN [tab |-> T3, bfs |-> B1, out |-> "IndexError"]
    ELSE IF ~isCanonical(T3) THEN [tab |-> T3, bfs |-> B1, out |-> "AssertionError"]
    ELSE [tab |-> markBasic(T3, B1, 0), bfs |-> B1, out |-> "ok"]

\* lines 88-108, R being the outcome of the loop of lines 69-84 and B1 the basic
\* sequence without the entries of the deleted rows
deleteAndRestore(R, B1, F) ==
    IF ~(\A k \in 1 .. Len(B1) : 0 <= B1[k] /\ B1[k] < F.n)
    THEN [tab |-> R.tab, bfs |-> B1, out |-> "AssertionError"]
    ELSE reduceAndCheck(
             rezeroObjective(
                 restoreObjective(stripTableau(R.tab, R.rowkeep, F.m, F.n), F),
                 B1, 0),
             B1)

\* lines 86-108, R being the outcome of the loop of lines 69-84
afterReplace(R, F) ==
    IF ~R.ok THEN [tab |-> R.tab, bfs |-> R.bfs, out |-> "AssertionError"]
    ELSE deleteAndRestore(R, Filter(R.bfs, R.rowkeep), F)

\* _find_bfs after solve() has returned: lines 64-108. out is "ok" or the
\* exception raised; tab and bfs are as the code leaves them at that point
finishFindBfs(T, B, F) ==
    IF getZ(T) # ZERO THEN [tab |-> T, bfs |-> B, out |-> "ValueError"]
    ELSE afterReplace(replaceArtificial(T, B, F.m, F.n, 0, Rep(TRUE, F.m)), F)

---------------------------------------------------------------------------
(* Input tableaus: the grids that _make_tableau_1 turns into a Tableau *)

\* TableauTest._make_tableau_1; g.z is the number in the corner of the grid
make_tableau_1(g) ==
    LET m == Len(g.b)
        n == Len(g.c)
        T0 == Tableau(m, n)
        T1 == setVarNames(setVarMarks(T0, g.marks), g.names)
        T2 == setC(setZ(T1, FNeg(g.z)), g.c)
    IN  setA(setB(T2, g.b), g.a)

VarNames == <<"x1", "x2", "x3", "x4", "x5", "x6", "x7", "x8", "x9">>

Grid(z, c, b, a) ==
    [marks |-> Rep(FALSE, Len(c)), names |-> Take(VarNames, Len(c)),
     z |-> z, c |-> c, b |-> b, a |-> a]

Ints(l) == List([k \in 1 .. Len(l) |-> FInt(l[k])])

Half == <<1, 2>>

\* tab1a, tab1b, tab1c of the tests (maximise 40 x1 + 30 x2)
tab1a ==
    [Grid(ZERO, Ints(<<-40, -30, 0, 0>>), Ints(<<12, 16>>),
          <<Ints(<<1, 1, 1, 0>>), Ints(<<2, 1, 0, 1>>)>>)
     EXCEPT !.names = <<"x1", "x2", "s1", "s2">>]

tab1b ==
    [Grid(FInt(320), Ints(<<0, -10, 0, 20>>), Ints(<<4, 8>>),
          <<<<ZERO, Half, ONE, FNeg(Half)>>, <<ONE, Half, ZERO, Half>>>>)
     EXCEPT !.names = <<"x1", "x2", "s1", "s2">>]

tab1c ==
    [Grid(FInt(400), Ints(<<0, 0, 20, 10>>), Ints(<<8, 4>>),
          <<Ints(<<0, 1, 2, -1>>), Ints(<<1, 0, -1, 1>>)>>)
     EXCEPT !.names = <<"x1", "x2", "s1", "s2">>]

\* x1 + x2 == 1 and 2 x1 + 2 x2 == 2: a linearly dependent constraint
depGrid ==
    Grid(ZERO, Ints(<<1, 1>>), Ints(<<1, 2>>), <<Ints(<<1, 1>>), Ints(<<2, 2>>)>>)

\* x1 + x2 == 1 and x1 + x2 == 2: contradictory constraints
infGrid ==
    Grid(ZERO, Ints(<<1, 1>>), Ints(<<1, 2>>), <<Ints(<<1, 1>>), Ints(<<1, 1>>)>>)

\* a degenerate canonical tableau on which the standard rule cycles with period 6
cycleGrid ==
    Grid(ZERO,
         Ints(<<-10, 57, 9, 24, 0, 0, 0>>),
         Ints(<<0, 0, 1>>),
         << <<Half, <<-11, 2>>, <<-5, 2>>, FInt(9), ONE, ZERO, ZERO>>,
            <<Half, <<-3, 2>>, <<-1, 2>>, ONE, ZERO, ONE, ZERO>>,
            Ints(<<1, 0, 0, 0, 0, 0, 1>>) >>)

\* the same with one more variable and row: the first pivot strictly improves
\* the objective, the following ones are the degenerate cycle
stallGrid ==
    Grid(ZERO,
         Ints(<<-100, -10, 57, 9, 24, 0, 0, 0, 0>>),
         Ints(<<0, 0, 1, 1>>),
         << <<ZERO, Half, <<-11, 2>>, <<-5, 2>>, FInt(9), ONE, ZERO, ZERO, ZERO>>,
            <<ZERO, Half, <<-3, 2>>, <<-1, 2>>, ONE, ZERO, ONE, ZERO, ZERO>>,
            Ints(<<0, 1, 0, 0, 0, 0, 0, 1, 0>>),
            Ints(<<1, 0, 0, 0, 0, 0, 0, 0, 1>>) >>)

\* the last grid is minimise -2 x1 - x2 subject to x1 - x2 + x3 == 1: column 0
\* admits a pivot and column 1, also of negative cost, has no positive entry
NamedGrids ==
    {tab1a, tab1b, tab1c, depGrid, infGrid, cycleGrid, stallGrid,
     Grid(ZERO, Ints(<<-2, -1, 0>>), Ints(<<1>>), <<Ints(<<1, -1, 1>>)>>)}

Vals == {FInt(k) : k \in (-MaxEntry) .. MaxEntry}

SmallGrids ==
    UNION {UNION {{Grid(ZERO, c, b, a) :
                      c \in [1 .. n -> Vals], b \in [1 .. m -> Vals],
                      a \in [1 .. m -> [1 .. n -> Vals]]} :
                  n \in 1 .. MaxN} :
           m \in 1 .. MaxM}

Grids == SmallGrids \cup NamedGrids

---------------------------------------------------------------------------
(* The state machine *)

NoSv == [obj_val |-> ZERO, steps_stuck |-> 0]
NoFb == [active |-> FALSE, orig_c |-> <<>>, orig_z |-> ZERO, m |-> 0, n |-> 0]
Call(op, out, r, c) == [op |-> op, out |-> out, r |-> r, c |-> c]

InitFrom(G) ==
    /\ \E g \in G : tab = make_tableau_1(g)
    /\ tab0 = tab
    /\ bfs = <<>>
    /\ pc = "new"
    /\ sv = NoSv
    /\ fb = NoFb
    /\ last = Call("load", "ok", -1, -1)
    /\ stall = 0
    /\ calls = 0
    /\ pivs = <<>>
    /\ seen = {}

\* no LinVar under consideration
NoLinVar == [x |-> "", isint |-> FALSE, lb |-> None, ub |-> None]
NoGiven == [lbs |-> {}, ubs |-> {}]

Init == InitFrom(Grids) /\ lv = NoLinVar /\ given = NoGiven

\* _find_bfs ends with the outcome R of finishFindBfs
ConstructionEnds(R) ==
    /\ tab' = R.tab
    /\ bfs' = R.bfs
    /\ pc' = IF R.out = "ok" THEN "ready" ELSE "raised"
    /\ last' = Call("init", R.out, -1, -1)

\* solve() returns normally to its caller, with tableau T and basic sequence B:
\* to _find_bfs (F.active), which runs to its end, or to the user
Returns(T, B, F) ==
    /\ sv' = NoSv
    /\ fb' = NoFb
    /\ stall' = 0
    /\ IF F.active
       THEN ConstructionEnds(finishFindBfs(T, B, F))
       ELSE /\ tab' = T
            /\ bfs' = B
            /\ pc' = "ready"
            /\ last' = Call("solve", "ok", -1, -1)

\* solve() raises an AssertionError, which also ends the constructor
Raises(T, B, F) ==
    /\ sv' = NoSv
    /\ fb' = NoFb
    /\ stall' = 0
    /\ tab' = T
    /\ bfs' = B
    /\ pc' = "raised"
    /\ last' = Call(IF F.active THEN "init" ELSE "solve", "AssertionError", -1, -1)

\* solve() up to its first loop: lines 116-122
EnterSolve(T, B, F) ==
    /\ pivs' = <<>>
    /\ seen' = {}
    /\ IF isOptimal(T) THEN Returns(T, B, F)
       ELSE /\ tab' = T
            /\ bfs' = B
            /\ fb' = F
            /\ sv' = [obj_val |-> getZ(T), steps_stuck |-> 0]
            /\ stall' = 0
            /\ pc' = "std"
            /\ last' = Call(IF F.active THEN "init" ELSE "solve", "running", -1, -1)

\* _find_bfs from line 46 on, begun being the outcome of beginFindBfs
ConstructFrom(begun) ==
    IF begun.canonical
    THEN /\ tab' = begun.tab
         /\ bfs' = begun.bfs
         /\ pc' = "ready"
         /\ last' = Call("init", "ok", -1, -1)
         /\ UNCHANGED <<sv, fb, stall, pivs, seen>>
    ELSE EnterSolve(begun.tab, begun.bfs,
                    [active |-> TRUE, orig_c |-> begun.orig_c,
                     orig_z |-> begun.orig_z, m |-> begun.m, n |-> begun.n])

\* Simplex(tab): __init__ and _find_bfs, up to the first loop of solve()
Construct ==
    /\ pc = "new"
    /\ tab0' = tab
    /\ UNCHANGED <<calls, lv, given>>
    /\ ConstructFrom(beginFindBfs(tab))

\* lines 131-137: the objective value after the pivot is compared with obj_val
StandardCounted(P, i, j) ==
    LET z == getZ(P.tab)
        stuck == IF z = sv.obj_val THEN sv.steps_stuck + 1 ELSE 0
        limit == getNumCons(tab) + getNumVars(tab)
    IN  IF ~FLe(z, sv.obj_val) THEN Raises(P.tab, P.bfs, fb)
        ELSE /\ tab' = P.tab
             /\ bfs' = P.bfs
             /\ sv' = [sv EXCEPT !.steps_stuck = stuck]
             /\ pc' = IF stuck < limit THEN "std" ELSE "min"
             /\ stall' = IF z = getZ(tab) THEN Min2(stall + 1, limit) ELSE 0
             /\ last' = Call(last.op, "running", i, j)
             /\ UNCHANGED fb

\* what the next iteration of a loop of solve() depends on (obj_val, m and n do
\* not change while solve() runs)
SolverState == [tab |-> tab, bfs |-> bfs, steps_stuck |-> sv.steps_stuck, pc |-> pc]

\* the pivots recorded once solve() has pivoted on (i, j)
Recorded(i, j) == IF Len(pivs) < MaxTrace THEN Append(pivs, <<i, j>>) ELSE pivs

\* lines 130-137: the standard rule has pivoted on (i, j), which gave P
StandardPivoted(P, i, j) ==
    /\ pivs' = Recorded(i, j)
    /\ seen' = seen \cup {SolverState}
    /\ StandardCounted(P, i, j)

\* lines 124-137, res being what findPivotStandard(True) returns
StandardResult(res) ==
    IF res.kind = "unbounded" THEN Raises(tab, bfs, fb) /\ UNCHANGED pivs /\ seen' = {}
    ELSE IF res.kind = "optimal" THEN Returns(tab, bfs, fb) /\ UNCHANGED pivs /\ seen' = {}
    ELSE StandardPivoted(doPivot(tab, bfs, res.i, res.j), res.i, res.j)

\* one iteration of "while steps_stuck < m+n" (lines 123-137)
StandardStep ==
    /\ pc = "std"
    /\ UNCHANGED <<tab0, calls, lv, given>>
    /\ StandardResult(findPivotStandard(tab))

\* the min-index rule has pivoted on (i, j), which gave P
MinIndexPivoted(P, i, j) ==
    /\ tab' = P.tab
    /\ bfs' = P.bfs
    /\ last' = Call(last.op, "running", i, j)
    /\ pivs' = Recorded(i, j)
    /\ seen' = seen \cup {SolverState}
    /\ UNCHANGED <<sv, fb, pc, stall>>

\* lines 139-146, res being what findPivotMinIndex(True) returns
MinIndexResult(res) ==
    IF res.kind = "unbounded" THEN Raises(tab, bfs, fb) /\ UNCHANGED pivs /\ seen' = {}
    ELSE IF res.kind = "optimal" THEN Returns(tab, bfs, fb) /\ UNCHANGED pivs /\ seen' = {}
    ELSE MinIndexPivoted(doPivot(tab, bfs, res.i, res.j), res.i, res.j)

\* one iteration of "while not is_opt" (lines 138-146)
MinIndexStep ==
    /\ pc = "min"
    /\ UNCHANGED <<tab0, calls, lv, given>>
    /\ MinIndexResult(findPivotMinIndex(tab))

\* the user calls solve() on a constructed Simplex
Solve ==
    /\ pc = "ready"
    /\ calls < MaxCalls
    /\ calls' = calls + 1
    /\ UNCHANGED <<tab0, lv, given>>
    /\ EnterSolve(tab, bfs, NoFb)

\* Simplex.pivot(r, c) ends with outcome out
PivotEnds(out, r, c) ==
    IF out = "ok"
    THEN /\ tab' = doPivot(tab, bfs, r, c).tab
         /\ bfs' = Put(bfs, r, c)
         /\ last' = Call("pivot", out, r, c)
    ELSE /\ last' = Call("pivot", out, r, c)
         /\ UNCHANGED <<tab, bfs>>

\* the user calls Simplex.pivot(r, c)
Pivot(r, c) ==
    /\ pc = "ready"
    /\ calls < MaxCalls
    /\ calls' = calls + 1
    /\ UNCHANGED <<tab0, sv, fb, stall, pc, pivs, seen, lv, given>>
    /\ PivotEnds(pivotOutcome(tab, r, c), r, c)

\* the arguments a caller tries: every index of the list, the last one also as the
\* Python index -1, and the first index past the end
PivotRows(T) == -1 .. getNumCons(T)
PivotCols(T) == -1 .. getNumVars(T)

Next ==
    \/ Construct
    \/ StandardStep
    \/ MinIndexStep
    \/ Solve
    \/ \E r \in PivotRows(tab), c \in PivotCols(tab) : Pivot(r, c)

Spec == Init /\ [][Next]_vars

---------------------------------------------------------------------------
(* The pivot searches as calls of a user of a constructed Simplex            *)

\* pivoting even when do_pivot is False
FindPivot_always(op, res, do_pivot) ==
    /\ pc = "ready"
    /\ calls < MaxCalls
    /\ calls' = calls + 1
    /\ IF res.kind = "pivot"
       THEN /\ tab' = doPivot(tab, bfs, res.i, res.j).tab
            /\ bfs' = Put(bfs, res.i, res.j)
       ELSE UNCHANGED <<tab, bfs>>
    /\ last' = Call(op,
                    IF res.kind # "pivot" THEN res.kind
                    ELSE IF do_pivot THEN "pivoted" ELSE "found",
                    res.i, res.j)
    /\ UNCHANGED <<tab0, sv, fb, stall, pc, pivs, seen, lv, given>>

\* the user calls the pivot search op with the flag do_pivot, res being what the
\* search finds: "if do_pivot: self._pivot(i,j)" and the return. The call is
\* recorded with how it ended: 'optimal', 'unbounded', "found" (the pair is
\* returned, do_pivot is False) or "pivoted" (the pair is returned after
\* self._pivot)
FindPivot(op, res, do_pivot) ==
    /\ pc = "ready"
    /\ calls < MaxCalls
    /\ calls' = calls + 1
    /\ IF do_pivot /\ res.kind = "pivot"
       THEN /\ tab' = doPivot(tab, bfs, res.i, res.j).tab
            /\ bfs' = Put(bfs, res.i, res.j)
       ELSE UNCHANGED <<tab, bfs>>
    /\ last' = Call(op,
                    IF res.kind # "pivot" THEN res.kind
                    ELSE IF do_pivot THEN "pivoted" ELSE "found",
                    res.i, res.j)
    /\ UNCHANGED <<tab0, sv, fb, stall, pc, pivs, seen, lv, given>>

\* the user calls findPivotAll(), which only reads the tableau
FindPivotAll ==
    /\ pc = "ready"
    /\ calls < MaxCalls
    /\ calls' = calls + 1
    /\ last' = Call("findPivotAll", "ok", -1, Len(findPivotAll(tab)))
    /\ UNCHANGED <<tab, bfs, tab0, sv, fb, stall, pc, pivs, seen, lv, given>>

SearchNext ==
    \/ Construct
    \/ StandardStep
    \/ MinIndexStep
    \/ Solve
    \/ \E r \in PivotRows(tab), c \in PivotCols(tab) : Pivot(r, c)
    \/ \E do_pivot \in BOOLEAN :
          FindPivot("findPivotStandard", findPivotStandard(tab), do_pivot)
    \/ \E do_pivot \in BOOLEAN :
          FindPivot("findPivotMinIndex", findPivotMinIndex(tab), do_pivot)
    \/ \E do_pivot \in BOOLEAN :
          FindPivot("findPivotMaxIncrease", findPivotMaxIncrease(tab), do_pivot)
    \/ FindPivotAll

SearchSpec == Init /\ [][SearchNext]_vars

---------------------------------------------------------------------------
(* The Tableau on its own: the operations a caller applies to a Tableau      *)
(* before any Simplex is constructed on it                                   *)

TabGrids == {tab1a, tab1b, tab1c, depGrid, infGrid}

TabInit == InitFrom(TabGrids) /\ lv = NoLinVar /\ given = NoGiven

\* the values a caller passes as a coefficient or as a new entry
Coefs == {ZERO, ONE, FInt(-1), Half}

\* the lists a caller passes as a permutation of 0..k-1: the reversal, the
\* rotation, a list with a repeated index and a list that is too short
PermsTried(k) ==
    {List([i \in 1 .. k |-> k - i]),
     List([i \in 1 .. k |-> i % k]),
     List([i \in 1 .. k |-> 0]),
     List([i \in 1 .. k - 1 |-> i - 1])}

\* a Tableau operation ends with outcome out ("ok" or the exception raised),
\* leaving the tableau T
TabEnds(op, out, T, r, c) ==
    /\ pc = "new"
    /\ calls < MaxCalls
    /\ calls' = calls + 1
    /\ tab' = IF out = "ok" THEN T ELSE tab
    /\ last' = Call(op, out, r, c)
    /\ UNCHANGED <<bfs, pc, sv, fb, tab0, stall, pivs, seen, lv, given>>

\* how Tableau.pivot(r, c) ends
tabPivotOutcome(T, r, c) ==
    IF ~InRange(T.a, r) \/ ~InRange(T.c, c) THEN "IndexError"
    ELSE IF getAij(T, r, c) = ZERO THEN "ZeroDivisionError"
    ELSE "ok"

TabPivot(r, c) ==
    TabEnds("Tableau.pivot", tabPivotOutcome(tab, r, c), pivot(tab, r, c), r, c)

TabSetZ(v) == TabEnds("setZ", "ok", setZ(tab, v), -1, -1)

TabSetCj(j, v) ==
    TabEnds("setCj", IF InRange(tab.c, j) THEN "ok" ELSE "IndexError",
            setCj(tab, j, v), -1, j)

TabSetBi(i, v) ==
    TabEnds("setBi", IF InRange(tab.b, i) THEN "ok" ELSE "IndexError",
            setBi(tab, i, v), i, -1)

TabSetAij(i, j, v) ==
    TabEnds("setAij",
            IF InRange(tab.a, i) /\ InRange(tab.c, j) THEN "ok" ELSE "IndexError",
            setAij(tab, i, j, v), i, j)

TabSetVarMark(j, v) ==
    TabEnds("setVarMark", IF InRange(tab.cm, j) THEN "ok" ELSE "IndexError",
            setVarMark(tab, j, v), -1, j)

TabAddVar == TabEnds("addVar", "ok", addVar(tab, "v"), -1, -1)

TabAddVars(vs) == TabEnds("addVars", "ok", addVars(tab, vs), -1, -1)

TabAddCon == TabEnds("addCon", "ok", addCon(tab), -1, -1)

TabAddCons(count) ==
    TabEnds("addCons", IF count <= 0 THEN "ValueError" ELSE "ok",
            addCons(tab, count), -1, -1)

TabPermuteRows(perm) ==
    TabEnds("permuteRows",
            IF IsPerm(perm, getNumCons(tab)) THEN "ok" ELSE "ValueError",
            permuteRows(tab, perm), -1, -1)

TabPermuteCols(perm) ==
    TabEnds("permuteCols",
            IF IsPerm(perm, getNumVars(tab)) THEN "ok" ELSE "ValueError",
            permuteCols(tab, perm), -1, -1)

TabRowMult(r, k) ==
    TabEnds("rowMult", IF k = ONE \/ InRange(tab.b, r) THEN "ok" ELSE "IndexError",
            rowMult(tab, r, k), r, -1)

TabRowDiv(r, d) ==
    TabEnds("rowDiv",
            IF d = ZERO THEN "ZeroDivisionError"
            ELSE IF FDiv(ONE, d) = ONE \/ InRange(tab.b, r) THEN "ok"
            ELSE "IndexError",
            rowDiv(tab, r, d), r, -1)

TabRowAdd(rd, rs, k) ==
    TabEnds("rowAdd",
            IF k = ZERO \/ (InRange(tab.b, rd) /\ InRange(tab.b, rs)) THEN "ok"
            ELSE "IndexError",
            rowAdd(tab, rd, rs, k), rd, -1)

TabRowSub(rd, rs, k) ==
    TabEnds("rowSub",
            IF k = ZERO \/ (InRange(tab.b, rd) /\ InRange(tab.b, rs)) THEN "ok"
            ELSE "IndexError",
            rowSub(tab, rd, rs, k), rd, -1)

TabRowAddToObj(r, k) ==
    TabEnds("rowAddToObj", IF k = ZERO \/ InRange(tab.b, r) THEN "ok" ELSE "IndexError",
            rowAddToObj(tab, r, k), r, -1)

TabRowSubFromObj(r, k) ==
    TabEnds("rowSubFromObj",
            IF k = ZERO \/ InRange(tab.b, r) THEN "ok" ELSE "IndexError",
            rowSubFromObj(tab, r, k), r, -1)

\* how an indexed read l[i] ends
readOutcome(l, i) == IF InRange(l, i) THEN "ok" ELSE "IndexError"

\* the indexed accessors: pure reads, which leave the tableau as it is
TabGetCj(j) == TabEnds("getCj", readOutcome(tab.c, j), tab, -1, j)

TabGetBi(i) == TabEnds("getBi", readOutcome(tab.b, i), tab, i, -1)

TabGetAij(i, j) ==
    TabEnds("getAij",
            IF InRange(tab.a, i) THEN readOutcome(At(tab.a, i), j) ELSE "IndexError",
            tab, i, j)

TabGetVarName(j) == TabEnds("getVarName", readOutcome(tab.cl, j), tab, -1, j)

TabGetVarMark(j) == TabEnds("getVarMark", readOutcome(tab.cm, j), tab, -1, j)

TabNext ==
    \/ \E r \in PivotRows(tab), c \in PivotCols(tab) : TabPivot(r, c)
    \/ \E v \in Coefs : TabSetZ(v)
    \/ \E j \in PivotCols(tab), v \in Coefs : TabSetCj(j, v)
    \/ \E i \in PivotRows(tab), v \in Coefs : TabSetBi(i, v)
    \/ \E i \in PivotRows(tab), j \in PivotCols(tab), v \in Coefs : TabSetAij(i, j, v)
    \/ \E j \in PivotCols(tab), v \in BOOLEAN : TabSetVarMark(j, v)
    \/ TabAddVar
    \/ \E vs \in {<<>>, <<"u", "v">>} : TabAddVars(vs)
    \/ TabAddCon
    \/ \E count \in 0 .. 2 : TabAddCons(count)
    \/ \E perm \in PermsTried(getNumCons(tab)) : TabPermuteRows(perm)
    \/ \E perm \in PermsTried(getNumVars(tab)) : TabPermuteCols(perm)
    \/ \E r \in PivotRows(tab), k \in Coefs : TabRowMult(r, k)
    \/ \E r \in PivotRows(tab), d \in Coefs : TabRowDiv(r, d)
    \/ \E rd, rs \in PivotRows(tab), k \in Coefs : TabRowAdd(rd, rs, k)
    \/ \E rd, rs \in PivotRows(tab), k \in Coefs : TabRowSub(rd, rs, k)
    \/ \E r \in PivotRows(tab), k \in Coefs : TabRowAddToObj(r, k)
    \/ \E r \in PivotRows(tab), k \in Coefs : TabRowSubFromObj(r, k)
    \/ \E j \in PivotCols(tab) : TabGetCj(j)
    \/ \E i \in PivotRows(tab) : TabGetBi(i)
    \/ \E i \in PivotRows(tab), j \in PivotCols(tab) : TabGetAij(i, j)
    \/ \E j \in PivotCols(tab) : TabGetVarName(j)
    \/ \E j \in PivotCols(tab) : TabGetVarMark(j)

TabSpec == TabInit /\ [][TabNext]_vars

---------------------------------------------------------------------------
(* class LinVar (src/lpsol/linprog.py): a variable with its bounds *)

\* math.floor and math.ceil of a Fraction
Floor(x) == x[1] \div x[2]
Ceil(x) == -((-x[1]) \div x[2])

\* LinVar(x, integral, lb, ub); lb and ub are None or a Fraction
LinVar(x, integral, lb, ub) ==
    [x |-> x, isint |-> integral,
     lb |-> IF lb = None THEN None ELSE IF integral THEN FInt(Ceil(lb)) ELSE lb,
     ub |-> IF ub = None THEN None ELSE IF integral THEN FInt(Floor(ub)) ELSE ub]

\* boundAbove with "self.ub = Frac(math.floor(self.ub))" left out
boundAbove_noFloor(v, ub) ==
    IF v.ub = None \/ FLt(ub, v.ub) THEN [v EXCEPT !.ub = ub] ELSE v

boundAbove(v, ub) ==
    IF v.ub = None \/ FLt(ub, v.ub)
    THEN [v EXCEPT !.ub = IF v.isint THEN FInt(Floor(ub)) ELSE ub]
    ELSE v

boundBelow(v, lb) ==
    IF v.lb = None \/ FLt(v.lb, lb)
    THEN [v EXCEPT !.lb = IF v.isint THEN FInt(Ceil(lb)) ELSE lb]
    ELSE v

isFeasible(v) == v.lb = None \/ v.ub = None \/ FLe(v.lb, v.ub)

\* the bounds a caller supplies: the multiples of 1/2 from -MaxBound to MaxBound
BoundVals == {Frac(k, 2) : k \in (-2 * MaxBound) .. (2 * MaxBound)}

\* the bounds supplied so far, b being supplied now (None supplies nothing)
Supplied(S, b) == IF b = None THEN S ELSE S \cup {b}

\* a LinVar has just been constructed
LinVarInit ==
    /\ InitFrom({tab1a})
    /\ \E integral \in BOOLEAN, lb, ub \in BoundVals \cup {None} :
          /\ lv = LinVar("x", integral, lb, ub)
          /\ given = [lbs |-> Supplied({}, lb), ubs |-> Supplied({}, ub)]

\* a method of the LinVar is called; the tableau is not involved
LinVarCall(op) ==
    /\ calls < MaxBoundCalls
    /\ calls' = calls + 1
    /\ last' = Call(op, "ok", -1, -1)
    /\ UNCHANGED <<tab, bfs, pc, sv, fb, tab0, stall, pivs, seen>>

BoundAbove(ub) ==
    /\ LinVarCall("boundAbove")
    /\ lv' = boundAbove(lv, ub)
    /\ given' = [given EXCEPT !.ubs = Supplied(given.ubs, ub)]

BoundBelow(lb) ==
    /\ LinVarCall("boundBelow")
    /\ lv' = boundBelow(lv, lb)
    /\ given' = [given EXCEPT !.lbs = Supplied(given.lbs, lb)]

LinVarNext ==
    \/ \E ub \in BoundVals : BoundAbove(ub)
    \/ \E lb \in BoundVals : BoundBelow(lb)

LinVarSpec == LinVarInit /\ [][LinVarNext]_vars

---------------------------------------------------------------------------
(* Notions the properties are stated with *)

RECURSIVE FSum(_)
FSum(l) == IF l = <<>> THEN ZERO ELSE FAdd(Head(l), FSum(Tail(l)))

\* column j of T is the unit vector of row i, with reduced cost 0
IdentityColumn(T, i, j) ==
    /\ getCj(T, j) = ZERO
    /\ \A k \in Range0(Len(T.a)) : getAij(T, k, j) = IF k = i THEN ONE ELSE ZERO

\* B names an identity column of T for every row of T
BasicSequenceOk(T, B) ==
    /\ Len(B) = Len(T.a)
    /\ Len(B) = Len(T.b)
    /\ \A i \in Range0(Len(B)) : InRange(T.c, At(B, i)) /\ IdentityColumn(T, i, At(B, i))

\* the objective row of T is the objective row of T0 with the rows of T
\* subtracted so that the columns of B get reduced cost 0, and the corner of T is
\* the value of T0's objective at the basic solution of B
ReducedFrom(T, B, T0) ==
    /\ \A j \in 1 .. Len(T.c) :
          T.c[j] = FSub(T0.c[j],
                        FSum(List([i \in 1 .. Len(B) |->
                                      FMul(getCj(T0, B[i]), T.a[i][j])])))
    /\ getZ(T) = FAdd(getZ(T0),
                      FSum(List([i \in 1 .. Len(B) |-> FMul(getCj(T0, B[i]), T.b[i])])))

\* the elements of a finite set of integers in increasing order
RECURSIVE Sorted(_)
Sorted(S) == IF S = {} THEN <<>> ELSE <<SetMin(S)>> \o Sorted(S \ {SetMin(S)})

\* the determinant of a square matrix of Fractions (expansion along the first row)
RECURSIVE Det(_)
Det(M) ==
    IF Len(M) = 0 THEN ONE
    ELSE LET k == Len(M)
             Minor(j) == List([i \in 1 .. k - 1 |->
                             List([l \in 1 .. k - 1 |->
                                      M[i + 1][IF l < j THEN l ELSE l + 1]])])
         IN  FSum(List([j \in 1 .. k |->
                           FMul(IF j % 2 = 1 THEN M[1][j] ELSE FNeg(M[1][j]),
                                Det(Minor(j)))]))

\* the solution, by Cramer's rule, of the square system of the rows rs and the
\* columns cs of A x = b, extended by 0 to the other columns; None entries if the
\* system is singular
CramerPoint(A, b, rs, cs, n) ==
    LET k == Len(cs)
        M == List([i \in 1 .. k |-> List([l \in 1 .. k |-> A[rs[i]][cs[l]]])])
        d == Det(M)
        Mb(l0) == List([i \in 1 .. k |->
                          List([l \in 1 .. k |-> IF l = l0 THEN b[rs[i]]
                                                 ELSE A[rs[i]][cs[l]]])])
        Pos(j) == CHOOSE l \in 1 .. k : cs[l] = j
    IN  List([j \in 1 .. n |->
                 IF d = ZERO THEN None
                 ELSE IF \E l \in 1 .. k : cs[l] = j THEN FDiv(Det(Mb(Pos(j))), d)
                 ELSE ZERO])

\* x >= 0 and A x = b
FeasiblePoint(A, b, x) ==
    /\ \A j \in 1 .. Len(x) : x[j] # None /\ FLe(ZERO, x[j])
    /\ \A i \in 1 .. Len(A) :
          FSum(List([j \in 1 .. Len(x) |-> FMul(A[i][j], x[j])])) = b[i]

\* the basic solutions of A x = b, x >= 0: a solvable system has a solution
\* supported on linearly independent columns, which a nonsingular square
\* subsystem determines
BasicPoints(A, b, n) ==
    LET m == Len(A)
        cand == {CramerPoint(A, b, Sorted(rs), Sorted(cs), n) :
                    <<rs, cs>> \in {p \in (SUBSET (1 .. m)) \X (SUBSET (1 .. n)) :
                                       Cardinality(p[1]) = Cardinality(p[2])}}
    IN  {x \in cand : FeasiblePoint(A, b, x)}

\* the system A x = b, x >= 0 of tableau T has a solution
Feasible(T) == BasicPoints(T.a, T.b, getNumVars(T)) # {}

\* the Tableau dimension invariant
DimOk(T) ==
    /\ getNumCons(T) = Len(T.b)
    /\ getNumCons(T) = Len(T.a)
    /\ getNumVars(T) = Len(T.c)
    /\ getNumVars(T) = Len(T.cl)
    /\ getNumVars(T) = Len(T.cm)
    /\ \A i \in 1 .. Len(T.a) : Len(T.a[i]) = getNumVars(T)

\* the value at x of the objective that tableau T states: c x plus the corner
ObjectiveAt(T, x) ==
    FAdd(getZ(T), FSum(List([j \in 1 .. Len(x) |-> FMul(T.c[j], x[j])])))

\* v is the least value of T's objective over the basic solutions of T's system
\* (the minimum of the LP when the LP has one)
IsLPMinimum(T, v) ==
    LET P == BasicPoints(T.a, T.b, getNumVars(T))
    IN  /\ \E x \in P : ObjectiveAt(T, x) = v
        /\ \A x \in P : FLe(v, ObjectiveAt(T, x))

\* T2 is the Gauss-Jordan result of pivoting T on row r, column c
GaussJordan(T, r, c, T2) ==
    LET p == T.a[r + 1][c + 1]
        n == Len(T.c)
    IN  /\ T2.b[r + 1] = FDiv(T.b[r + 1], p)
        /\ \A j \in 1 .. n : T2.a[r + 1][j] = FDiv(T.a[r + 1][j], p)
        /\ \A k \in 1 .. Len(T.a) : k # r + 1 =>
              /\ T2.b[k] = FSub(T.b[k], FMul(T.a[k][c + 1], T2.b[r + 1]))
              /\ \A j \in 1 .. n :
                    T2.a[k][j] = FSub(T.a[k][j], FMul(T.a[k][c + 1], T2.a[r + 1][j]))
        /\ \A j \in 1 .. n : T2.c[j] = FSub(T.c[j], FMul(T.c[c + 1], T2.a[r + 1][j]))
        /\ getZ(T2) = FAdd(getZ(T), FMul(T.c[c + 1], T2.b[r + 1]))
        /\ T2.m = T.m /\ T2.n = T.n /\ T2.cl = T.cl /\ T2.cm = T.cm
        /\ Len(T2.a) = Len(T.a) /\ Len(T2.b) = Len(T.b) /\ Len(T2.c) = Len(T.c)
        /\ \A k \in 1 .. Len(T.a) : Len(T2.a[k]) = Len(T.a[k])

\* T holds the numbers of grid g (the corner of a grid is the stored _z)
SameNumbers(T, g) == T.z = g.z /\ T.c = g.c /\ T.b = g.b /\ T.a = g.a

Constructed == last.op = "init" /\ last.out = "ok"

---------------------------------------------------------------------------
(* Properties *)

\* C1: for a successfully constructed Simplex, a call of Simplex.pivot(r, c),
\* whether it performs the pivot or raises, leaves the tableau canonical with
\* every b[i] >= 0 if it was so before the call; hence so does every finite
\* sequence of such calls after construction
C1_PivotKeepsCanonical ==
    [][(pc = "ready" /\ last'.op = "pivot" /\ isCanonical(tab) /\ ~anyNegB(tab))
          => (isCanonical(tab') /\ ~anyNegB(tab'))]_vars

\* C2: when the constructor returns without raising, the tableau is canonical
\* with respect to the original objective, no b[i] is negative, and the basic
\* sequence has one entry per row, pairwise distinct, each in [0, n) for the
\* original n, each naming a column with a 1 in its row, 0 in every other row and
\* reduced cost 0
C2_ConstructionPostcondition ==
    Constructed =>
        /\ isCanonical(tab)
        /\ ~anyNegB(tab)
        /\ BasicSequenceOk(tab, bfs)
        /\ \A i \in 1 .. Len(bfs) : 0 <= bfs[i] /\ bfs[i] < getNumVars(tab0)
        /\ \A i, k \in 1 .. Len(bfs) : i # k => bfs[i] # bfs[k]
        /\ ReducedFrom(tab, bfs, tab0)

\* the constructor has returned after going through the artificial problem
C2_Witness ==
    /\ Constructed
    /\ ~isCanonical(flipRows(tab0, 0))
    /\ tab.c # tab0.c


\* the constructor has ended, by returning or by raising
ConstructionEnded == last.op = "init" /\ last.out # "running"

\* C3: the constructor raises the infeasibility error (ValueError) exactly when
\* A x = b, x >= 0 of the tableau it was given has no solution; when the system
\* has a solution it returns normally with a basic sequence of non-artificial
\* columns
C3_InfeasibleIffValueError ==
    ConstructionEnded =>
        /\ (last.out = "ValueError") <=> ~Feasible(tab0)
        /\ Feasible(tab0) =>
              /\ last.out = "ok"
              /\ \A i \in 1 .. Len(bfs) : 0 <= bfs[i] /\ bfs[i] < getNumVars(tab0)

\* the part of C3 about the infeasibility error alone
C3_ValueErrorIffInfeasible ==
    ConstructionEnded => ((last.out = "ValueError") <=> ~Feasible(tab0))

\* the constructor has ended after deleting a row of the tableau
RowDeleted == ConstructionEnded /\ Len(tab.a) < Len(tab0.a)

\* C4: when phase 1 ends with artificial objective 0 and a row whose basic
\* variable is artificial and whose other entries are all 0, the constructor
\* returns normally, the row is gone from a, b and the basic sequence, and the
\* tableau has one constraint less, with a basic column for every remaining row
C4_DependentRowRemoved ==
    RowDeleted =>
        /\ last.out = "ok"
        /\ getNumCons(tab) = Len(tab.a)
        /\ Len(tab.b) = Len(tab.a)
        /\ BasicSequenceOk(tab, bfs)


\* C5: the Tableau dimension invariant holds in every reachable state, also
\* after the Simplex operations: getNumCons() = len(b) = number of rows of a, and
\* getNumVars() = len(c) = len(colNames) = len(colMarks) = length of every row
C5_DimensionInvariant == DimOk(tab)

\* C6: solve(), entered by the user or by the constructor, terminates after
\* finitely many pivots: its loops, whose next iteration depends only on the
\* tableau, the basic sequence, steps_stuck and the loop it is in, never come
\* back to a state they have left
C6_SolveNeverRepeats == (pc = "std" \/ pc = "min") => SolverState \notin seen

\* C7: once m+n consecutive standard-rule pivots have each left the objective
\* value as it was before the pivot, solve() no longer uses the standard rule
C7_StallSwitchesToBland ==
    pc = "std" => stall < getNumCons(tab) + getNumVars(tab)

\* solve() has just returned normally to the user
SolveReturned == last.op = "solve" /\ last.out = "ok"

\* C8: when solve() returns normally the tableau is in optimal canonical form
\* (every c[j] >= 0, every b[i] >= 0, isCanonical(), an identity column named by
\* the basic sequence for every row), and a solve() called on an optimal tableau
\* changes nothing
C8_SolveReturnsOptimalCanonical ==
    [][(last'.op = "solve" /\ last'.out = "ok") =>
          /\ isOptimal(tab')
          /\ ~anyNegB(tab')
          /\ isCanonical(tab')
          /\ BasicSequenceOk(tab', bfs')
          /\ (pc = "ready" /\ isOptimal(tab)) => (tab' = tab /\ bfs' = bfs)]_vars

\* solve() has returned normally from the first call made on a Simplex
FirstSolveReturned == SolveReturned /\ calls = 1

\* C9: constructing a Simplex on the textbook tableau and calling solve()
\* performs the pivots (1, 0) then (0, 1) and ends with c = [0,0,20,10],
\* b = [8,4], a = [[0,1,2,-1],[1,0,-1,1]], getZ() = -400 and basic sequence
\* [1, 0]; and for every input, the getZ() that a solve() called right after
\* construction returns with is the minimum of the LP of the input tableau
C9_SolveFindsMinimum ==
    FirstSolveReturned =>
        /\ IsLPMinimum(tab0, getZ(tab))
        /\ SameNumbers(tab0, tab1a) =>
              /\ pivs = <<<<1, 0>>, <<0, 1>>>>
              /\ SameNumbers(tab, tab1c)
              /\ getZ(tab) = FInt(-400)
              /\ bfs = <<1, 0>>

\* solve() has pivoted the textbook tableau to its optimum
C9_Witness ==
    /\ FirstSolveReturned
    /\ SameNumbers(tab0, tab1a)
    /\ Len(pivs) = 2

\* Tableau.pivot(r, c) has just been performed on an entry of the tableau
TabPivoted(r, c) ==
    /\ last'.op = "Tableau.pivot"
    /\ last'.out = "ok"
    /\ last'.r = r
    /\ last'.c = c

\* C10: Tableau.pivot(r, c) on an entry a[r][c] # 0 of the tableau gives the
\* Gauss-Jordan result and leaves dimensions, names and marks as they were; on
\* the textbook tableau pivot(1, 0) gives z = -320, c = [0,-10,0,20], b = [4,8],
\* a = [[0,1/2,1,-1/2],[1,1/2,0,1/2]], and pivot(0, 1) on that tableau gives the
\* optimal tableau
C10_PivotIsGaussJordan ==
    [][/\ \A r \in Range0(Len(tab.a)), c \in Range0(Len(tab.c)) :
             TabPivoted(r, c) => GaussJordan(tab, r, c, tab')
       /\ (TabPivoted(1, 0) /\ SameNumbers(tab, tab1a))
             => (SameNumbers(tab', tab1b) /\ getZ(tab') = FInt(-320))
       /\ (TabPivoted(0, 1) /\ SameNumbers(tab, tab1b))
             => SameNumbers(tab', tab1c)]_vars

\* the textbook tableau has been pivoted on (1, 0) and then on (0, 1)
C10_Witness ==
    /\ last.op = "Tableau.pivot"
    /\ last.out = "ok"
    /\ last.r = 0
    /\ last.c = 1
    /\ calls = 2
    /\ SameNumbers(tab0, tab1a)
    /\ SameNumbers(tab, tab1c)

\* Tableau.pivot has just been called with row r and column c
TabPivotCalled(r, c) == last'.op = "Tableau.pivot" /\ last'.r = r /\ last'.c = c

\* C11: on any tableau, canonical or not, Tableau.pivot(r, c) on an entry
\* a[r][c] # 0 succeeds and leaves column c with a 1 in row r, 0 in every other
\* row and reduced cost 0; on an entry a[r][c] = 0 it raises ZeroDivisionError
\* and leaves z, c, b and a as they were
C11_PivotMakesUnitColumn ==
    [][\A r \in Range0(Len(tab.a)), c \in Range0(Len(tab.c)) :
          TabPivotCalled(r, c) =>
              IF getAij(tab, r, c) # ZERO
              THEN last'.out = "ok" /\ IdentityColumn(tab', r, c)
              ELSE /\ last'.out = "ZeroDivisionError"
                   /\ tab'.z = tab.z /\ tab'.c = tab.c
                   /\ tab'.b = tab.b /\ tab'.a = tab.a]_vars

\* a tableau that is not canonical has been pivoted on a nonzero entry whose
\* column had a nonzero reduced cost
C11_Witness ==
    /\ last.op = "Tableau.pivot"
    /\ last.out = "ok"
    /\ last.r = 0
    /\ last.c = 1
    /\ calls = 1
    /\ SameNumbers(tab0, infGrid)
    /\ ~isCanonical(tab)

\* the rows with a positive entry in column c
PositiveRows(T, c) == {i \in Range0(Len(T.b)) : FLt(ZERO, getAij(T, i, c))}

Ratio(T, i, c) == FDiv(getBi(T, i), getAij(T, i, c))

\* b[r]/a[r][c] is defined and equals the minimum of b[i]/a[i][c] over the rows
\* with a positive entry in column c
RatioIsMinimum(T, r, c) ==
    /\ getAij(T, r, c) # ZERO
    /\ \E i \in PositiveRows(T, c) : Ratio(T, r, c) = Ratio(T, i, c)
    /\ \A i \in PositiveRows(T, c) : FLe(Ratio(T, r, c), Ratio(T, i, c))

\* the user has just called Simplex.pivot(r, c)
PivotCalled(r, c) == pc = "ready" /\ last'.op = "pivot" /\ last'.r = r /\ last'.c = c

\* C12 as stated: Simplex.pivot(r, c) on a row and a column of the tableau
\* performs the pivot only if b[r]/a[r][c] is the minimum ratio of column c, and
\* whenever a[r][c] is not a positive entry of minimum ratio it raises ValueError
\* and leaves the tableau and the basic sequence as they were
C12_PivotOnlyOnMinRatio ==
    [][\A r \in Range0(Len(tab.b)), c \in Range0(Len(tab.c)) :
          PivotCalled(r, c) =>
              /\ last'.out = "ok" => RatioIsMinimum(tab, r, c)
              /\ ~(FLt(ZERO, getAij(tab, r, c)) /\ RatioIsMinimum(tab, r, c))
                    => (last'.out = "ValueError" /\ tab' = tab /\ bfs' = bfs)]_vars

\* C12, amended: Simplex.pivot(r, c) raises IndexError for an index that the
\* lists do not resolve, ZeroDivisionError when a[r][c] = 0, ValueError when
\* b[r]/a[r][c] is not the minimum ratio over the rows with a positive entry in
\* column c, and performs the pivot otherwise (also on a negative entry whose
\* ratio 0 is the minimum); a call that raises leaves the tableau and the basic
\* sequence as they were
C12_PivotChecksMinRatio ==
    [][\A r \in PivotRows(tab), c \in PivotCols(tab) :
          PivotCalled(r, c) =>
              /\ last'.out =
                    IF ~InRange(tab.b, r) \/ ~InRange(tab.c, c) THEN "IndexError"
                    ELSE IF getAij(tab, r, c) = ZERO THEN "ZeroDivisionError"
                    ELSE IF RatioIsMinimum(tab, r, c) THEN "ok"
                    ELSE "ValueError"
              /\ last'.out = "ok" => At(bfs', r) = c
              /\ last'.out # "ok" => (tab' = tab /\ bfs' = bfs)]_vars

\* pivot(0, 0) on the textbook tableau was refused: the ratio 12 of row 0 is not
\* the minimum ratio 8 of column 0
C12_Witness ==
    /\ last = Call("pivot", "ValueError", 0, 0)
    /\ calls = 1
    /\ SameNumbers(tab0, tab1a)
    /\ tab.a = tab0.a

\* solve() called by the user (phase 2) is about to search for a pivot on a
\* canonical tableau with no negative b[i], and the search returns 'unbounded'
UnboundedInPhase2 ==
    /\ ~fb.active
    /\ isCanonical(tab)
    /\ ~anyNegB(tab)
    /\ \/ pc = "std" /\ findPivotStandard(tab).kind = "unbounded"
       \/ pc = "min" /\ findPivotMinIndex(tab).kind = "unbounded"

\* C13: when the pivot search of a phase-2 solve() on a canonical feasible
\* tableau returns 'unbounded', solve() stops without raising: the call does not
\* end with the AssertionError 'unbounded artificial problem'
C13_UnboundedIsNotAnException ==
    [][UnboundedInPhase2 => (last'.out # "AssertionError" /\ pc' # "raised")]_vars

\* the running solve() is about to commit the pivot (i, j) that its search finds
SolvePivots(i, j) ==
    \/ /\ pc = "std"
       /\ findPivotStandard(tab) = [kind |-> "pivot", i |-> i, j |-> j]
    \/ /\ pc = "min"
       /\ findPivotMinIndex(tab) = [kind |-> "pivot", i |-> i, j |-> j]

\* C14: every pivot that solve() commits (in the constructor's phase 1 or when
\* called by the user, under the standard or the smallest-index rule) leaves
\* getZ() less than or equal to its value just before that pivot, strictly less
\* when the pivot row has b[r] > 0, and the assertion 'objective value
\* increased' does not fire
C14_ObjectiveNeverIncreases ==
    [][\A i \in Range0(Len(tab.b)), j \in Range0(Len(tab.c)) :
          SolvePivots(i, j) =>
              /\ FLe(getZ(tab'), getZ(tab))
              /\ FLt(ZERO, getBi(tab, i)) => FLt(getZ(tab'), getZ(tab))
              /\ last'.out # "AssertionError"
              /\ last'.r = i /\ last'.c = j]_vars

\* solve() has committed the pivot (1, 0) on the textbook tableau, which took
\* the objective value from 0 to -320
C14_Witness ==
    /\ pc = "std"
    /\ last = Call("solve", "running", 1, 0)
    /\ SameNumbers(tab0, tab1a)
    /\ getZ(tab) = FInt(-320)

\* the rows of T that have no identity column
RowsWithoutBasicColumn(T) ==
    {i \in Range0(Len(T.a)) : ~\E j \in Range0(Len(T.c)) : IdentityColumn(T, i, j)}

\* the constructor has raised the infeasibility error
InfeasibilityRaised == last.op = "init" /\ last.out = "ValueError"

\* C15: when the constructor raises the infeasibility error, getZ(), the
\* minimised artificial objective, is strictly positive and the tableau is the
\* optimal tableau of the artificial problem: it has one more column for each
\* row that had no basic column once the rows with b[i] < 0 were negated (so
\* more columns than the tableau supplied), every c[j] >= 0, every b[i] >= 0
\* and isCanonical(); and the constructor raises that error for x1 + x2 == 1,
\* x1 + x2 == 2
C15_InfeasibleLeavesArtificialOptimum ==
    /\ InfeasibilityRaised =>
          /\ FLt(ZERO, getZ(tab))
          /\ getNumVars(tab) = getNumVars(tab0)
                 + Cardinality(RowsWithoutBasicColumn(flipRows(tab0, 0)))
          /\ getNumVars(tab) > getNumVars(tab0)
          /\ DimOk(tab)
          /\ isOptimal(tab)
          /\ ~anyNegB(tab)
          /\ isCanonical(tab)
    /\ (ConstructionEnded /\ SameNumbers(tab0, infGrid)) => InfeasibilityRaised

\* the constructor has raised the infeasibility error for x1 + x2 == 1,
\* x1 + x2 == 2, leaving the artificial objective at 1
C15_Witness ==
    /\ InfeasibilityRaised
    /\ SameNumbers(tab0, infGrid)
    /\ getZ(tab) = ONE
    /\ getNumVars(tab) = 4

\* the assignment to the variables 0 .. n-1 that the dict d states: the value
\* under key j for a variable j that is a key, 0 for every other variable
SolutionOf(d, n) ==
    List([j \in 1 .. n |-> IF (j - 1) \in DOMAIN d THEN d[j - 1] ELSE ZERO])

\* C16: whenever a constructed Simplex is at rest (after the constructor and
\* after every pivot() or solve() that returned or was refused), the basic
\* solution that getBFS() states, with every other variable of the tableau
\* supplied to the constructor at 0, is non-negative and satisfies every
\* constraint row of that tableau
C16_BasicSolutionIsFeasible ==
    pc = "ready" =>
        FeasiblePoint(tab0.a, tab0.b, SolutionOf(getBFS(tab, bfs), getNumVars(tab0)))

\* an indexed accessor has just been called
AccessorCalled ==
    last'.op \in {"getCj", "getBi", "getAij", "getVarName", "getVarMark"}

\* the call just made took a row index outside [0, m) or a column index
\* outside [0, n)
IndexOutside ==
    \/ last'.op \in {"getBi", "getAij"} /\ last'.r \notin Range0(getNumCons(tab))
    \/ /\ last'.op \in {"getCj", "getAij", "getVarName", "getVarMark"}
       /\ last'.c \notin Range0(getNumVars(tab))

\* what the accessor just called returns for indices inside the ranges
Returned ==
    CASE last'.op = "getCj" -> getCj(tab, last'.c)
      [] last'.op = "getBi" -> getBi(tab, last'.r)
      [] last'.op = "getAij" -> getAij(tab, last'.r, last'.c)
      [] last'.op = "getVarName" -> getVarName(tab, last'.c)
      [] last'.op = "getVarMark" -> getVarMark(tab, last'.c)

\* the entry that the lists store at the indices of the call just made
Stored ==
    CASE last'.op = "getCj" -> tab.c[last'.c + 1]
      [] last'.op = "getBi" -> tab.b[last'.r + 1]
      [] last'.op = "getAij" -> tab.a[last'.r + 1][last'.c + 1]
      [] last'.op = "getVarName" -> tab.cl[last'.c + 1]
      [] last'.op = "getVarMark" -> tab.cm[last'.c + 1]

\* C17: getCj, getBi, getAij, getVarName and getVarMark raise an out-of-bounds
\* error for every row index outside [0, m) and every column index outside
\* [0, n), negative indices included, and for indices inside return the stored
\* entry; in both cases the tableau is left as it was
C17_AccessorsRejectOutOfRange ==
    [][AccessorCalled =>
          /\ tab' = tab
          /\ IF IndexOutside THEN last'.out = "IndexError"
             ELSE last'.out = "ok" /\ Returned = Stored]_vars

\* the least and the greatest of a nonempty finite set of Fractions
FMin(S) == CHOOSE x \in S : \A y \in S : FLe(x, y)
FMax(S) == CHOOSE x \in S : \A y \in S : FLe(y, x)

\* C18: after the construction of a LinVar and any sequence of boundAbove and
\* boundBelow, the upper bound is the minimum of the upper bounds supplied (none
\* if none was supplied) and the lower bound the maximum of the lower bounds
\* supplied; for an integral variable the stored bounds are integers, the floor
\* of that minimum and the ceiling of that maximum; and isFeasible() is false
\* exactly when both bounds exist and lb > ub
C18_LinVarBounds ==
    /\ given.ubs = {} => lv.ub = None
    /\ given.lbs = {} => lv.lb = None
    /\ (given.ubs # {} /\ ~lv.isint) => lv.ub = FMin(given.ubs)
    /\ (given.lbs # {} /\ ~lv.isint) => lv.lb = FMax(given.lbs)
    /\ (given.ubs # {} /\ lv.isint) =>
          /\ lv.ub # None /\ lv.ub[2] = 1
          /\ FLe(lv.ub, FMin(given.ubs))
          /\ FLt(FMin(given.ubs), FAdd(lv.ub, ONE))
    /\ (given.lbs # {} /\ lv.isint) =>
          /\ lv.lb # None /\ lv.lb[2] = 1
          /\ FLe(FMax(given.lbs), lv.lb)
          /\ FLt(FSub(lv.lb, ONE), FMax(given.lbs))
    /\ ~isFeasible(lv) <=> (lv.lb # None /\ lv.ub # None /\ FLt(lv.ub, lv.lb))

\* an integral variable that was given the upper bounds 3/2 and 1/2 and the
\* lower bound 1/2 has the bounds [1, 0] and is infeasible
C18_Witness ==
    /\ lv.isint
    /\ given.ubs = {<<3, 2>>, <<1, 2>>}
    /\ given.lbs = {<<1, 2>>}
    /\ lv.ub = ZERO
    /\ lv.lb = ONE
    /\ ~isFeasible(lv)
    /\ calls = 2

\* the columns with a negative reduced cost
NegativeCols(T) == {j \in Range0(Len(T.c)) : FLt(getCj(T, j), ZERO)}

\* the rows of PositiveRows(T, j) that attain the minimum ratio of column j
MinRatioRows(T, j) ==
    {i \in PositiveRows(T, j) :
        \A k \in PositiveRows(T, j) : FLe(Ratio(T, i, j), Ratio(T, k, j))}

\* res is what a pivot search that enters column j returns: 'unbounded' when no
\* row has a positive entry in column j, else the lowest row of minimum ratio
LeavesByMinRatio(T, j, res) ==
    IF PositiveRows(T, j) = {} THEN res.kind = "unbounded"
    ELSE res = [kind |-> "pivot", i |-> SetMin(MinRatioRows(T, j)), j |-> j]

\* a Simplex holds a canonical tableau
CanonicalSimplex == pc \in {"ready", "std", "min"} /\ isCanonical(tab) /\ DimOk(tab)

\* C19: on a canonical tableau findPivotStandard returns 'optimal' exactly when
\* no c[j] is negative; otherwise it enters the lowest-index column among those
\* with the most negative c[j], returns 'unbounded' exactly when that column has
\* no positive entry, and otherwise returns (i, j) with i the lowest-index row
\* attaining the minimum of b[i]/a[i][j] over the rows with a[i][j] > 0
C19_StandardRule ==
    CanonicalSimplex =>
        IF NegativeCols(tab) = {} THEN findPivotStandard(tab).kind = "optimal"
        ELSE LeavesByMinRatio(
                 tab,
                 SetMin({j \in NegativeCols(tab) :
                            \A k \in NegativeCols(tab) : FLe(getCj(tab, j), getCj(tab, k))}),
                 findPivotStandard(tab))

\* phase 1 on x1 + x2 == 1, 2 x1 + 2 x2 == 2 is about to search: both columns
\* have reduced cost -3 and both rows ratio 1, and the search returns (0, 0)
C19_Witness ==
    /\ pc = "std"
    /\ SameNumbers(tab0, depGrid)
    /\ getCj(tab, 0) = FInt(-3)
    /\ getCj(tab, 1) = FInt(-3)
    /\ Cardinality(MinRatioRows(tab, 0)) = 2
    /\ findPivotStandard(tab) = [kind |-> "pivot", i |-> 0, j |-> 0]

\* C20: on a canonical tableau findPivotMinIndex returns 'optimal' exactly when
\* no c[j] is negative; otherwise it enters the lowest-index column with
\* c[j] < 0, returns 'unbounded' exactly when that column has no positive entry,
\* and otherwise returns (i, j) with i the lowest-index row attaining the
\* minimum ratio b[i]/a[i][j] over the rows with a[i][j] > 0
C20_MinIndexRule ==
    CanonicalSimplex =>
        IF NegativeCols(tab) = {} THEN findPivotMinIndex(tab).kind = "optimal"
        ELSE LeavesByMinRatio(tab, SetMin(NegativeCols(tab)), findPivotMinIndex(tab))


\* the min-index search is about to run on a canonical tableau with several
\* negative reduced costs, where it returns a pivot in the lowest such column
\* and the standard search would return another pivot
C20_Witness ==
    /\ pc = "min"
    /\ CanonicalSimplex
    /\ Cardinality(NegativeCols(tab)) >= 2
    /\ findPivotMinIndex(tab).kind = "pivot"
    /\ findPivotMinIndex(tab).j = SetMin(NegativeCols(tab))
    /\ findPivotMinIndex(tab) # findPivotStandard(tab)

\* the objective decrease of entering column j: -c[j] times its minimum ratio
Decrease(T, j) ==
    FMul(FNeg(getCj(T, j)), Ratio(T, SetMin(MinRatioRows(T, j)), j))

\* the negative columns whose decrease is the largest
BestCols(T) ==
    {j \in NegativeCols(T) :
        \A k \in NegativeCols(T) : FLe(Decrease(T, k), Decrease(T, j))}

\* C21: findPivotMaxIncrease returns 'optimal' exactly when no c[j] is negative;
\* 'unbounded' exactly when some column with c[j] < 0 has no entry a[i][j] > 0,
\* whatever the other columns admit; otherwise the pair (i, j) where j is the
\* lowest column that maximises -c[j] * minratio_j over the columns with
\* c[j] < 0 and i the lowest row of column j attaining minratio_j
C21_MaxIncreaseRule ==
    CanonicalSimplex =>
        IF NegativeCols(tab) = {} THEN findPivotMaxIncrease(tab).kind = "optimal"
        ELSE IF \E j \in NegativeCols(tab) : PositiveRows(tab, j) = {}
             THEN findPivotMaxIncrease(tab).kind = "unbounded"
        ELSE findPivotMaxIncrease(tab) =
                 [kind |-> "pivot",
                  i |-> SetMin(MinRatioRows(tab, SetMin(BestCols(tab)))),
                  j |-> SetMin(BestCols(tab))]


\* findPivotMaxIncrease() has been called on the textbook tableau: column 0 has
\* the most negative cost (-40, decrease 40 * 8) and the search returns (0, 1),
\* whose decrease is 30 * 12
C21_Witness ==
    /\ last.op = "findPivotMaxIncrease"
    /\ last.out = "found"
    /\ last.r = 0
    /\ last.c = 1
    /\ SameNumbers(tab, tab1a)
    /\ findPivotStandard(tab).j = 0
    /\ Decrease(tab, 0) = FInt(320)
    /\ Decrease(tab, 1) = FInt(360)
    /\ findPivotMaxIncrease(tab) = [kind |-> "pivot", i |-> 0, j |-> 1]

\* the user's call of a pivot search ends in this step
SearchCalled ==
    /\ calls' = calls + 1
    /\ last'.op \in {"findPivotStandard", "findPivotMinIndex",
                     "findPivotMaxIncrease", "findPivotAll"}

\* what the search named op finds on tableau T
Found(op, T) ==
    IF op = "findPivotStandard" THEN findPivotStandard(T)
    ELSE IF op = "findPivotMinIndex" THEN findPivotMinIndex(T)
    ELSE findPivotMaxIncrease(T)

\* C22: a call of findPivotStandard, findPivotMinIndex or findPivotMaxIncrease
\* with the flag false, and a call of findPivotAll, leave the tableau (z, c, b,
\* a, names, marks, dimensions) and the basic sequence as they were; with the
\* flag true the state changes only when the pair (i, j) is returned: then the
\* tableau is the Gauss-Jordan pivot on (i, j) of the tableau before (names and
\* dimensions kept, column j marked, no mark changed but those of column j and
\* of the column that was basic in row i) and basicSequence[i] is j; a call that
\* returns 'optimal' or 'unbounded' changes nothing
C22_SearchFrame ==
    [][SearchCalled =>
          IF last'.out = "pivoted"
          THEN /\ Found(last'.op, tab) = [kind |-> "pivot", i |-> last'.r, j |-> last'.c]
               /\ GaussJordan(tab, last'.r, last'.c, [tab' EXCEPT !.cm = tab.cm])
               /\ Len(tab'.cm) = Len(tab.cm)
               /\ getVarMark(tab', last'.c)
               /\ \A k \in 1 .. Len(tab.cm) :
                     (k # last'.c + 1 /\ k # PyIdx(tab.cm, At(bfs, last'.r)))
                         => tab'.cm[k] = tab.cm[k]
               /\ bfs' = [bfs EXCEPT ![last'.r + 1] = last'.c]
          ELSE tab' = tab /\ bfs' = bfs]_vars

\* findPivotStandard(True) has pivoted the textbook tableau on (1, 0)
C22_Witness ==
    /\ last = Call("findPivotStandard", "pivoted", 1, 0)
    /\ calls = 1
    /\ SameNumbers(tab0, tab1a)
    /\ SameNumbers(tab, tab1b)
    /\ bfs = <<2, 0>>

\* the pairs (i, j) with a[i][j] > 0 whose ratio b[i]/a[i][j] is the minimum of
\* column j
MinRatioPairs(T) ==
    {p \in Range0(Len(T.b)) \X Range0(Len(T.c)) : p[1] \in MinRatioRows(T, p[2])}

\* l lists its pairs by column and then by row, without repetition
ByColumnThenRow(l) ==
    \A k \in 1 .. Len(l) : \A h \in 1 .. k - 1 :
        \/ l[h][2] < l[k][2]
        \/ l[h][2] = l[k][2] /\ l[h][1] < l[k][1]

\* a Simplex holds a tableau
SimplexHeld == pc \in {"ready", "std", "min"} /\ DimOk(tab)

IdentityColumnsOf(T, i) == {j \in Range0(Len(T.c)) : IdentityColumn(T, i, j)}

\* B holds for every row of T the lowest identity column of the row, or -1 if
\* the row has none, and the columns it holds for different rows differ
LowestIdentityColumns(T, B) ==
    /\ Len(B) = Len(T.a)
    /\ \A i \in Range0(Len(T.a)) :
          B[i + 1] = IF IdentityColumnsOf(T, i) = {} THEN -1
                     ELSE SetMin(IdentityColumnsOf(T, i))
    /\ \A i, k \in 1 .. Len(T.a) : (i # k /\ B[i] # -1) => B[i] # B[k]

\* C24: isCanonical(buf) returns true exactly when every b[i] >= 0 and every
\* row i has a column j with c[j] = 0, a[i][j] = 1 and a[k][j] = 0 for k # i;
\* when no b[i] is negative, buf[i] is for every row the lowest such column, or
\* -1 if the row has none, and the columns stored for different rows differ
\* (the sentinel -1 can be stored for several rows)
C24_IsCanonical ==
    DimOk(tab) =>
        /\ isCanonical(tab) <=>
              /\ \A i \in 1 .. Len(tab.b) : FLe(ZERO, tab.b[i])
              /\ \A i \in Range0(Len(tab.a)) : IdentityColumnsOf(tab, i) # {}
        /\ (\A i \in 1 .. Len(tab.b) : FLe(ZERO, tab.b[i]))
              => LowestIdentityColumns(tab, basicCols(tab))

\* the constructor has called isCanonical(self._bfs) on a canonical tableau in
\* which a row has several identity columns: the lowest is in the basic sequence
C24_Witness ==
    /\ Constructed
    /\ tab = tab0
    /\ isCanonical(tab)
    /\ bfs = basicCols(tab)
    /\ \E i \in Range0(Len(tab.a)) : Cardinality(IdentityColumnsOf(tab, i)) >= 2

\* pivoting back: P is the outcome of Simplex.pivot(r, c) on (T, B) and q the
\* column that was basic in row r; Simplex.pivot(r, q) is accepted and gives
\* back the tableau T, marks included, and the basic sequence B
PivotsBack(T, B, P, r, q) ==
    /\ pivotOutcome(P.tab, r, q) = "ok"
    /\ doPivot(P.tab, P.bfs, r, q) = [tab |-> T, bfs |-> B]

\* C25: on a canonical tableau with basic column q in row r, for every (r, c)
\* with a[r][c] # 0 that passes the minimum-ratio test, pivot(r, c) followed by
\* pivot(r, q) is accepted by the minimum-ratio test and restores z, c, b, a,
\* the basic sequence and the marks
C25_PivotRoundTrip ==
    (pc = "ready" /\ CanonicalSimplex /\ BasicSequenceOk(tab, bfs)) =>
        \A r \in Range0(Len(tab.a)), c \in Range0(Len(tab.c)) :
            pivotOutcome(tab, r, c) = "ok" =>
                PivotsBack(tab, bfs, doPivot(tab, bfs, r, c), r, bfs[r + 1])

\* the marks of T are those of the columns of B
MarksAreBasic(T, B) ==
    \A j \in Range0(Len(T.cm)) : getVarMark(T, j) <=> \E i \in 1 .. Len(B) : B[i] = j

\* C28: after a successful construction on a tableau whose marks were all
\* false, on the already-canonical path and on the artificial-variable path, and
\* after every later pivot, colMarks[j] is true exactly for the columns j of
\* the basic sequence
C28_MarksFollowBasicSequence ==
    (/\ pc \in {"ready", "std", "min"}
     /\ ~fb.active
     /\ \A j \in 1 .. Len(tab0.cm) : ~tab0.cm[j])
        => MarksAreBasic(tab, bfs)

\* the constructor is solving the artificial problem
InPhase1 == pc \in {"std", "min"} /\ fb.active

\* C26: while the constructor solves the phase-1 artificial problem, whatever
\* the tableau it was given, neither findPivotStandard nor findPivotMinIndex
\* returns 'unbounded' on a tableau that solve() reaches, so the assertion
\* 'unbounded artificial problem (internal error)' does not fail in phase 1
C26_Phase1NeverUnbounded ==
    InPhase1 =>
        /\ findPivotStandard(tab).kind # "unbounded"
        /\ findPivotMinIndex(tab).kind # "unbounded"

\* phase 1 has pivoted and searches on: a column of negative cost has an entry
\* that is not positive
C26_Witness ==
    /\ InPhase1
    /\ last.r # -1
    /\ findPivotStandard(tab).kind = "pivot"
    /\ \E j \in NegativeCols(tab) : PositiveRows(tab, j) # Range0(Len(tab.b))

\* R is the outcome of the loop of lines 69-84 on the phase-1 optimum (T, B): no
\* assertion failed, no b[k] has changed or is negative, every row has kept a
\* unit column as its basic column, a row whose basic column was not artificial
\* has kept that column, and a row keeps an artificial column only if it is
\* marked for deletion, all its entries in the original columns being 0
ArtificialsReplaced(T, B, F, R) ==
    /\ R.ok
    /\ R.tab.b = T.b
    /\ ~anyNegB(R.tab)
    /\ \A k \in Range0(F.m) :
          /\ IdentityColumn(R.tab, k, R.bfs[k + 1])
          /\ B[k + 1] < F.n => R.bfs[k + 1] = B[k + 1]
          /\ R.bfs[k + 1] >= F.n =>
                /\ ~R.rowkeep[k + 1]
                /\ \A j \in Range0(F.n) : getAij(R.tab, k, j) = ZERO

\* phase 1 has ended on (T, B) with artificial objective 0: every row whose
\* basic column is artificial has b[i] = 0, and the replacement loop does what
\* ArtificialsReplaced says
Phase1EndsWell(T, B, F) ==
    getZ(T) = ZERO =>
        /\ \A i \in Range0(F.m) : B[i + 1] >= F.n => getBi(T, i) = ZERO
        /\ ArtificialsReplaced(T, B, F,
                               replaceArtificial(T, B, F.m, F.n, 0, Rep(TRUE, F.m)))

\* g is what beginFindBfs gives the constructor: if the artificial problem is
\* optimal at once, phase 1 ends on it
EndsAtOnce(g) ==
    (~g.canonical /\ isOptimal(g.tab)) => Phase1EndsWell(g.tab, g.bfs, g)

\* C27: when phase 1 ends with artificial objective exactly 0, every row whose
\* basic column is still artificial has b[i] = 0, so the assertion 'invalid
\* artificial solution' does not fail, and pivoting the lowest-index original
\* column with a nonzero entry (of either sign) into such a row changes no b[k],
\* leaves every b[k] >= 0 and leaves every other row its basic column
C27_ArtificialRowsAreDegenerate ==
    /\ pc = "new" => EndsAtOnce(beginFindBfs(tab))
    /\ (InPhase1 /\ pc = "std" /\ findPivotStandard(tab).kind = "optimal")
          => Phase1EndsWell(tab, bfs, fb)
    /\ (InPhase1 /\ pc = "min" /\ findPivotMinIndex(tab).kind = "optimal")
          => Phase1EndsWell(tab, bfs, fb)


\* the constructor has returned on -x1 == 0: phase 1 was optimal at once with
\* the artificial column basic at value 0, and the pivot on the entry -1 has
\* put x1 in its place
C27_Witness ==
    /\ Constructed
    /\ tab0.a = <<<<FInt(-1)>>>>
    /\ tab0.b = <<ZERO>>
    /\ ~beginFindBfs(tab0).canonical
    /\ isOptimal(beginFindBfs(tab0).tab)
    /\ beginFindBfs(tab0).bfs = <<1>>
    /\ bfs = <<0>>
    /\ tab.a = <<<<ONE>>>>
    /\ tab.b = <<ZERO>>

\* C29: in every state reached after a successful construction and any pivots
\* or solve(), getObjValue() is the objective handed to the constructor (z0 and
\* c0 as getZ() and getC() gave them before construction) at the current basic
\* solution, z0 + sum of c0[j] * x[j] with x the solution getBFS() returns and 0
\* for the other variables; and the tableau has the number of columns and the
\* column names it had before construction
C29_ObjectiveValueOfBFS ==
    (pc \in {"ready", "std", "min"} /\ ~fb.active) =>
        /\ getZ(tab) = ObjectiveAt(tab0, SolutionOf(getBFS(tab, bfs), getNumVars(tab0)))
        /\ getNumVars(tab) = getNumVars(tab0)
        /\ Len(tab.c) = Len(tab0.c)
        /\ tab.cl = tab0.cl

\* the arguments (r, c) with which Simplex.pivot(r, c) performs the pivot on (T, B)
AcceptedPairs(T) ==
    {p \in PivotRows(T) \X PivotCols(T) : pivotOutcome(T, p[1], p[2]) = "ok"}

\* C30: on a canonical tableau the pairs (r, c) that Simplex.pivot(r, c)
\* accepts are exactly the pairs that findPivotAll() returns; in particular
\* Simplex.pivot pivots on no entry a[r][c] <= 0
C30_PivotAcceptsWhatFindPivotAllLists ==
    (pc = "ready" /\ CanonicalSimplex) =>
        /\ AcceptedPairs(tab) = {findPivotAll(tab)[k] : k \in 1 .. Len(findPivotAll(tab))}
        /\ \A p \in AcceptedPairs(tab) : FLt(ZERO, getAij(tab, p[1], p[2]))

===========================================================================
